---- MODULE Spec2Model ----
(***************************************************************************)
(* A model of the caching reverse proxy of agentica (src/agentica/cache.py)*)
(* CacheHandler: key derivation, the sqlite store, the file overlay, the   *)
(* streaming forwarder and the request handler; RequestCache: the lazily   *)
(* started server and the client hook.  The agent that reaches the proxy   *)
(* through the hooked client is modelled beside it: Agent's call loop      *)
(* (src/agentica/agent.py) and Responder.respond (responder.py).           *)
(***************************************************************************)
EXTENDS Integers, Sequences, FiniteSets, TLC

\* ------------------------------------------------------------------ bounds
\* Requests the proxy receives in one behaviour (each is one handle_request).
MaxRequests == 2
\* Chunks an upstream response body is streamed in, at most.
MaxChunks == 2
\* Puts to one key of the persistent store, when it is exercised on its own.
MaxPuts == 2
\* Calls of RequestCache.hook_openai in one behaviour.
MaxHookCalls == 3
\* Connection attempts _wait_for_server makes before its timeout has elapsed.
MaxPolls == 1
\* Calls made on one Agent in one behaviour.
MaxCalls == 2
\* Content deltas one streamed completion arrives in, at most.
MaxDeltas == 2

\* --------------------------------------------------------------- constants
REDIRECT_HEADER == "X-Cache-Redirect-To"

\* str.lower() on the header names the model uses.
LowerName(n) ==
    CASE n = "X-Cache-Redirect-To" -> "x-cache-redirect-to"
      [] n = "Host"                -> "host"
      [] n = "Authorization"       -> "authorization"
      [] n = "Content-Type"        -> "content-type"
      [] n = "Content-Length"      -> "content-length"
      [] n = "Content-Encoding"    -> "content-encoding"
      [] n = "Transfer-Encoding"   -> "transfer-encoding"
      [] OTHER                     -> n

\* A header mapping is a function from names to values.
NoHeaders == [n \in {} |-> ""]

HeadersOf(pairs) ==
    [n \in {p[1] : p \in pairs} |-> (CHOOSE p \in pairs : p[1] = n)[2]]

\* WithoutHeaders comparing the names as they are spelled
WithoutHeaders_ExactCase(headers, drop) ==
    [n \in {k \in DOMAIN headers : k \notin drop} |-> headers[n]]

\* {k: v for k, v in headers.items() if k.lower() not in drop}
WithoutHeaders(headers, drop) ==
    [n \in {k \in DOMAIN headers : LowerName(k) \notin drop} |-> headers[n]]

\* headers[name] = value on a dict
WithHeader(headers, name, value) ==
    [n \in DOMAIN headers \cup {name} |-> IF n = name THEN value ELSE headers[n]]

\* request.headers.get(name) on aiohttp's case-insensitive multidict:
\* <<value>>, or <<>> for None.
HeaderGet(headers, name) ==
    IF \E k \in DOMAIN headers : LowerName(k) = LowerName(name)
    THEN <<headers[CHOOSE k \in DOMAIN headers : LowerName(k) = LowerName(name)]>>
    ELSE <<>>

\* Falsy as `redirect_url is None` would have it
Falsy_NoneOnly(redirect_url) == redirect_url = <<>>

\* `not redirect_url`: None or the empty string
Falsy(redirect_url) == redirect_url = <<>> \/ redirect_url[1] = ""

FRAMING_HEADERS == {"transfer-encoding", "content-length", "content-encoding"}
HOP_HEADERS == {"host", "x-cache-redirect-to"}

\* ----------------------------------------------------------- key derivation
\* Key derivation exercised on its own: the arguments of each derivation,
\* and what it returned.
VARIABLES key_input, derived

\* body.decode('utf-8', errors='ignore') on the bytes the model draws: ASCII,
\* two-byte sequences (0xC2..0xDF then 0x80..0xBF), and bytes that start no
\* valid sequence, which are dropped.
RECURSIVE Utf8DecodeIgnore(_)
Utf8DecodeIgnore(b) ==
    IF b = <<>> THEN <<>>
    ELSE IF b[1] < 128 THEN <<b[1]>> \o Utf8DecodeIgnore(Tail(b))
    ELSE IF b[1] \in 194..223 /\ Len(b) >= 2 /\ b[2] \in 128..191
         THEN <<(b[1] - 192) * 64 + (b[2] - 128)>> \o Utf8DecodeIgnore(Tail(Tail(b)))
    ELSE Utf8DecodeIgnore(Tail(b))

\* CanonicalString without the target
CanonicalString_NoTarget(method, path, body, redirect_url) ==
    [body         |-> IF body # <<>> THEN Utf8DecodeIgnore(body) ELSE <<>>,
     method       |-> method,
     path         |-> path,
     redirect_url |-> ""]

\* json.dumps(request_data, sort_keys=True): the four fields in key order.
\* The serialisation is one-to-one on them, so the record stands for the text.
CanonicalString(method, path, body, redirect_url) ==
    [body         |-> IF body # <<>> THEN Utf8DecodeIgnore(body) ELSE <<>>,
     method       |-> method,
     path         |-> path,
     redirect_url |-> redirect_url]

\* hashlib.sha256(...).hexdigest(), taken to be collision free.
Sha256Hex(text) == [sha256 |-> text]

\* _hash_request: (key, canonical string)
HashRequest(method, path, body, redirect_url) ==
    [key         |-> Sha256Hex(CanonicalString(method, path, body, redirect_url)),
     request_str |-> CanonicalString(method, path, body, redirect_url)]

\* ------------------------------------------------------- persistent store
\* The cache table is a set of rows (key, status_code, headers, body).
\* json.dumps / json.loads of a str -> str dict: the set of its items.
JsonDumpsHeaders(headers) == {<<n, headers[n]>> : n \in DOMAIN headers}
JsonLoadsHeaders(text) == HeadersOf(text)

\* A lookup's result: found (the entry), not found (None), or raised (an
\* exception the lookup does not catch).
NotCached == [found |-> FALSE, raised |-> FALSE]
LookupRaised == [found |-> FALSE, raised |-> TRUE]

\* GetCachedResponse with a lookup that matches no row
GetCachedResponse_NeverFound(table, cache_key) == NotCached

\* _get_cached_response: SELECT status_code, headers, body WHERE key = ?
GetCachedResponse(table, cache_key) ==
    IF \E row \in table : row.key = cache_key
    THEN LET row == CHOOSE row \in table : row.key = cache_key
         IN [found       |-> TRUE,
             raised      |-> FALSE,
             status_code |-> row.status_code,
             headers     |-> JsonLoadsHeaders(row.headers),
             body        |-> row.body]
    ELSE NotCached

\* SaveResponse as INSERT OR IGNORE would have it: the first row is kept
SaveResponse_InsertOrIgnore(table, cache_key, status_code, headers, body) ==
    IF \E row \in table : row.key = cache_key THEN table
    ELSE table \cup {[key         |-> cache_key,
                      status_code |-> status_code,
                      headers     |-> JsonDumpsHeaders(headers),
                      body        |-> body]}

\* _save_response: INSERT OR REPLACE INTO cache (key, status_code, headers, body)
SaveResponse(table, cache_key, status_code, headers, body) ==
    {row \in table : row.key # cache_key}
        \cup {[key         |-> cache_key,
               status_code |-> status_code,
               headers     |-> JsonDumpsHeaders(headers),
               body        |-> body]}

\* ------------------------------------------------------------ file overlay
\* base64 text is a sequence of sextets 0..63, with 64 for the padding '='.
RECURSIVE B64Encode(_)
B64Encode(b) ==
    IF Len(b) = 0 THEN <<>>
    ELSE IF Len(b) = 1
         THEN <<b[1] \div 4, (b[1] % 4) * 16, 64, 64>>
    ELSE IF Len(b) = 2
         THEN <<b[1] \div 4, (b[1] % 4) * 16 + b[2] \div 16, (b[2] % 16) * 4, 64>>
    ELSE <<b[1] \div 4, (b[1] % 4) * 16 + b[2] \div 16,
           (b[2] % 16) * 4 + b[3] \div 64, b[3] % 64>>
         \o B64Encode(SubSeq(b, 4, Len(b)))

\* base64.b64decode: [ok, bytes]; not ok stands for binascii.Error.
RECURSIVE B64Decode(_)
B64Decode(t) ==
    IF Len(t) = 0 THEN [ok |-> TRUE, bytes |-> <<>>]
    ELSE IF Len(t) < 4 \/ t[1] = 64 \/ t[2] = 64 THEN [ok |-> FALSE, bytes |-> <<>>]
    ELSE IF t[3] = 64
         THEN [ok    |-> t[4] = 64 /\ Len(t) = 4,
               bytes |-> <<t[1] * 4 + t[2] \div 16>>]
    ELSE IF t[4] = 64
         THEN [ok    |-> Len(t) = 4,
               bytes |-> <<t[1] * 4 + t[2] \div 16, (t[2] % 16) * 16 + t[3] \div 4>>]
    ELSE LET rest == B64Decode(SubSeq(t, 5, Len(t)))
         IN [ok    |-> rest.ok,
             bytes |-> <<t[1] * 4 + t[2] \div 16, (t[2] % 16) * 16 + t[3] \div 4,
                         (t[3] % 4) * 64 + t[4]>> \o rest.bytes]

\* _get_file_cache_path: FILE_CACHE_DIR / f"{cache_key}.json"
FileCachePath(cache_key) == [name |-> cache_key, ext |-> "json"]

\* FileDocument writing the body bytes as they are, without base64
FileDocument_RawBody(status_code, headers, body) ==
    [json        |-> "object",
     status_code |-> status_code,
     headers     |-> headers,
     body        |-> body]

\* What a file of the overlay directory holds: the JSON document that
\* _save_file_cached_response writes, or text that json.load rejects, or a
\* JSON document of another shape (an object lacking fields, an object whose
\* body is no base64 text, a document that is no object).
FileDocument(status_code, headers, body) ==
    [json        |-> "object",
     status_code |-> status_code,
     headers     |-> headers,
     body        |-> B64Encode(body)]
InvalidJsonFile == [json |-> "invalid"]
EmptyObjectFile == [json |-> "object"]
ArrayFile == [json |-> "array"]
BadBase64File(status_code, headers) ==
    [json |-> "object", status_code |-> status_code, headers |-> headers,
     body |-> <<1>>]

\* _get_file_cached_response: the entry, or NotCached when the file does not
\* exist or json.JSONDecodeError, KeyError or ValueError is caught; indexing a
\* document that is no object raises TypeError, which is not caught.
GetFileCachedResponse(dir, cache_key) ==
    LET path == FileCachePath(cache_key) IN
    IF path \notin DOMAIN dir THEN NotCached
    ELSE LET doc == dir[path] IN
         IF doc.json = "invalid" THEN NotCached
         ELSE IF doc.json # "object" THEN LookupRaised
         ELSE IF {"status_code", "headers", "body"} \ DOMAIN doc # {} THEN NotCached
         ELSE IF ~B64Decode(doc.body).ok THEN NotCached
         ELSE [found       |-> TRUE,
               raised      |-> FALSE,
               status_code |-> doc.status_code,
               headers     |-> doc.headers,
               body        |-> B64Decode(doc.body).bytes]

\* SaveFileCachedResponse leaving a file that is there already as it is
SaveFileCachedResponse_KeepsExisting(dir, cache_key, status_code, headers, body) ==
    [p \in DOMAIN dir \cup {FileCachePath(cache_key)} |->
        IF p \in DOMAIN dir THEN dir[p]
        ELSE FileDocument(status_code, headers, body)]

\* _save_file_cached_response: open(file_path, 'w') and json.dump
SaveFileCachedResponse(dir, cache_key, status_code, headers, body) ==
    [p \in DOMAIN dir \cup {FileCachePath(cache_key)} |->
        IF p = FileCachePath(cache_key)
        THEN FileDocument(status_code, headers, body)
        ELSE dir[p]]

\* ---------------------------------------------------------------- requests
Modes == {"", "read", "write"}

\* os.environ.get('FILE_CACHE', '')
EnvGet(env) == IF env = <<>> THEN "" ELSE env[1]

\* LowerMode leaving the value as it was given
LowerMode_AsGiven(value) == value

\* str.lower() on the values of FILE_CACHE the model draws
LowerMode(value) ==
    CASE value = "READ"  -> "read"
      [] value = "Write" -> "write"
      [] value = "Off"   -> "off"
      [] OTHER           -> value
\* The connections the proxy serves at a time; a closed one is used again.
Reqs == {1, 2}

\* The inbound requests (method, path_qs, headers, body). The caller on
\* connection r sends its own credentials.
Upstream == "http://up"
Credentials(r) == IF r = 1 THEN "k1" ELSE "k2"
InboundA(r) ==
    [method |-> "POST", path_qs |-> "/v1/thing", body |-> <<97>>,
     headers |-> HeadersOf({<<"Host", "localhost">>, <<"Authorization", Credentials(r)>>,
                            <<"X-Cache-Redirect-To", Upstream>>})]
\* another body, the routing header spelled in lower case, and the target
\* written with a trailing slash
InboundB(r) ==
    [method |-> "POST", path_qs |-> "/v1/thing", body |-> <<98>>,
     headers |-> HeadersOf({<<"Host", "localhost">>, <<"Authorization", Credentials(r)>>,
                            <<"x-cache-redirect-to", "http://up/">>})]
InboundNoTarget(r) ==
    [InboundA(r) EXCEPT !.headers = WithoutHeaders(InboundA(r).headers, {"x-cache-redirect-to"})]
InboundEmptyTarget(r) ==
    [InboundA(r) EXCEPT !.headers = WithHeader(InboundA(r).headers, "X-Cache-Redirect-To", "")]
Inbound(r) == {InboundA(r), InboundB(r), InboundNoTarget(r), InboundEmptyTarget(r)}

\* redirect_url of a request that carries the routing header
TargetOf(q) == HeaderGet(q.headers, REDIRECT_HEADER)[1]
\* KeyOf hashing the credentials with the target
KeyOf_WithCredentials(q) ==
    HashRequest(q.method, q.path_qs, q.body,
                TargetOf(q) \o q.headers["Authorization"]).key
\* cache_key as handle_request derives it
KeyOf(q) == HashRequest(q.method, q.path_qs, q.body, TargetOf(q)).key
KeyA == KeyOf(InboundA(1))
KeyB == KeyOf(InboundB(1))
Keys == {KeyA, KeyB, KeyOf(InboundEmptyTarget(1))}

NoRequest == [method |-> "", path_qs |-> "", body |-> <<>>, headers |-> NoHeaders]
NoKey == HashRequest("", "", <<>>, "").key

\* redirect_url.rstrip('/'), on the targets the model draws
RStripSlash(redirect_url) ==
    CASE redirect_url = "http://up/"  -> "http://up"
      [] redirect_url = "http://up//" -> "http://up"
      [] redirect_url = "/"           -> ""
      [] OTHER                        -> redirect_url

\* f"{redirect_url.rstrip('/')}{path}"
ForwardUrl(redirect_url, path) == RStripSlash(redirect_url) \o path

\* ForwardRequest sending the inbound headers as they came
ForwardRequest_AllHeaders(q, redirect_url) ==
    [method  |-> q.method,
     url     |-> ForwardUrl(redirect_url, q.path_qs),
     headers |-> q.headers,
     data    |-> q.body]

\* session.request(method=method, url=url, headers=forward_headers, data=body)
ForwardRequest(q, redirect_url) ==
    [method  |-> q.method,
     url     |-> ForwardUrl(redirect_url, q.path_qs),
     headers |-> WithoutHeaders(q.headers, HOP_HEADERS),
     data    |-> q.body]
NotRequested == [method |-> "", url |-> "", headers |-> NoHeaders, data |-> <<>>]

\* What upstream may answer: a status and headers, then the body in chunks.
PlainHeaders == HeadersOf({<<"Content-Type", "json">>})
FramedHeaders ==
    HeadersOf({<<"Content-Type", "json">>, <<"Content-Length", "99">>,
               <<"Transfer-Encoding", "chunked">>})
UpstreamAnswers ==
    {[status |-> 200, headers |-> FramedHeaders],
     [status |-> 299, headers |-> PlainHeaders],
     [status |-> 300, headers |-> PlainHeaders],
     [status |-> 500, headers |-> FramedHeaders]}
\* The i-th chunk upstream sends in answer to connection r.
ChunkOf(r, i) == <<16 * r + i>>
NoUpstream == [status |-> 0, headers |-> NoHeaders]

\* The stores as the handler may find them when it starts: the table with or
\* without an entry for InboundA; the overlay directory empty, or holding
\* for InboundA an entry, a file that is no JSON, or a JSON array.
SeedBody == <<7, 8>>
SeedTable == SaveResponse({}, KeyA, 200, FramedHeaders, SeedBody)
NoFiles == [p \in {} |-> InvalidJsonFile]
SeedDir ==
    SaveFileCachedResponse(NoFiles, KeyA, 200, FramedHeaders, SeedBody)
InitialStores ==
    [mode : {"", "write"}, table : {{}, SeedTable}, dir : {NoFiles}]
    \cup [mode : {"write"}, table : {{}}, dir : {SeedDir}]
    \cup [mode : {"read"}, table : {{}, SeedTable},
          dir : {NoFiles, SeedDir,
                 [p \in {FileCachePath(KeyA)} |-> InvalidJsonFile],
                 [p \in {FileCachePath(KeyA)} |-> ArrayFile]}]

\* What the caller has been sent.
NothingSent == [sent |-> "none", status |-> 0, headers |-> NoHeaders, body |-> <<>>]

VARIABLES
    file_cache_mode,  \* CacheHandler.file_cache_mode
    db,               \* the rows of the cache table
    files,            \* the overlay directory: path -> document
    pc,               \* each connection's position in handle_request
    request,          \* each connection's inbound request
    cache_key,        \* handle_request's cache_key
    upstream,         \* the upstream response's status and headers
    collected_body,   \* _forward_request's collected_body
    response,         \* what the caller of each connection has been sent
    error,            \* the exception handle_request ended with, if any
    calls,            \* outbound requests made for each connection
    session_request,  \* what session.request was called with, per connection
    arrivals,         \* requests received so far
    outbound,         \* history: outbound requests made for each key, in total
    hadEntry,         \* history: the store held the key's entry on arrival
    seen,             \* history: the rows of the key when the store was read
    touched,          \* history: the store operations each connection made
    overlap,          \* history: some request arrived while another was in flight
    clean,            \* history: every outbound request was answered 2xx in full
                      \* and every store write succeeded
    seeded,           \* history: a store was not empty at the start
    last_put,         \* history: per key, the latest put and how many there were
    port,             \* RequestCache.__port of each RequestCache
    servers,          \* the background processes: owner, port, state
    spawned,          \* history: processes each RequestCache has started
    base_url,         \* client.base_url of each client
    custom_headers,   \* client._custom_headers: its type and its items
    hpc,              \* each caller's position in hook_openai
    hcall,            \* each caller's call: the RequestCache, the client, ...
    herror,           \* the exception each caller's call raised, if any
    polls,            \* connection attempts of each caller's readiness wait
    hook_calls,       \* calls of hook_openai so far
    hooked,           \* history: per client, the RequestCaches whose hook returned
    ready_seen,       \* history: per RequestCache, the ports a readiness check found open
    called,           \* history: the RequestCaches hook_openai has been called on
    env_file_cache,   \* os.environ's FILE_CACHE: <<value>>, or <<>> when unset
    handler,          \* the CacheHandler: not constructed, ready, or failed
    hook_overlap,     \* history: some call began while another was running
    apc,              \* the Agent's call: idle, awaiting inference, executing, exited
    attempt,          \* iterations of the call's loop begun so far
    on_stream,        \* the call's on_stream callback
    content_parts,    \* deltas of the completion being streamed, so far
    full_content,     \* the completion handed to the Responder
    last_code,        \* Responder.__last_code
    stream,           \* history: what on_stream has been called with in this call
    outcome,          \* how the call ended
    responded,        \* history: what the last respond() did with its message
    agent_calls       \* calls made on the Agent so far

\* the server lifecycle and the client hook
hookVars == <<port, servers, spawned, base_url, custom_headers, hpc, hcall, herror,
              polls, hook_calls, hooked, ready_seen, called, hook_overlap>>

\* key derivation exercised on its own
keyVars == <<key_input, derived>>

\* the environment and the construction of the handler
startVars == <<env_file_cache, handler>>

\* the Agent and its Responder
agentVars == <<apc, attempt, on_stream, content_parts, full_content, last_code, stream,
               outcome, responded, agent_calls>>

\* what no request changes
fixed == <<file_cache_mode, seeded, last_put, hookVars, keyVars, startVars, agentVars>>

\* each connection's variables, and the histories of the handler
connVars == <<pc, request, cache_key, upstream, collected_body, response, error,
              calls, session_request, arrivals, outbound, hadEntry, seen, touched,
              overlap, clean>>

vars == <<file_cache_mode, db, files, connVars, seeded, last_put, hookVars, keyVars,
         startVars, agentVars>>

\* what no step of the Agent changes
notAgent == <<file_cache_mode, db, files, connVars, seeded, last_put, hookVars, keyVars,
             startVars>>

\* ------------------------------------------- RequestCache and its clients
Caches == {"c1", "c2"}
Clients == {"x", "y"}
Callers == {1, 2}
\* The ports bind(('', 0)) may hand out.
Ports == {8001, 8002}
\* self.__port = None
NoPort == 0

\* The endpoint a client is configured with before any hook.
OriginalUrl(cl) == IF cl = "x" THEN "https://api.x/v1/" ELSE "https://api.y/v1/"
\* f"http://localhost:{self.__port}/"
ProxyUrl(p) == "http://localhost:" \o ToString(p) \o "/"
\* The base_url setter of the client appends a slash to a URL that lacks one;
\* every URL above ends with one.
EnforceTrailingSlash(url) == url

NoCall == [cache |-> "c1", client |-> "x", wport |-> NoPort, again |-> FALSE,
           first |-> FALSE]

\* No RequestCache has started its server; client cl keeps its headers in a
\* dict or in another Mapping, as kinds[cl] says, and has no custom header.
InitHook(kinds) ==
    /\ port = [c \in Caches |-> NoPort]
    /\ servers = {}
    /\ spawned = [c \in Caches |-> 0]
    /\ base_url = [cl \in Clients |-> OriginalUrl(cl)]
    /\ custom_headers = [cl \in Clients |-> [kind |-> kinds[cl], items |-> NoHeaders]]
    /\ hpc = [t \in Callers |-> "idle"]
    /\ hcall = [t \in Callers |-> NoCall]
    /\ herror = [t \in Callers |-> "none"]
    /\ polls = [t \in Callers |-> 0]
    /\ hook_calls = 0
    /\ hooked = [cl \in Clients |-> {}]
    /\ ready_seen = [c \in Caches |-> {}]
    /\ called = {}
    /\ hook_overlap = FALSE

\* _hash_request has not been called.
NoInput == [method |-> "", path |-> "", body |-> <<>>, redirect_url |-> ""]
NotDerived == [done |-> FALSE]
InitKeyIdle ==
    /\ key_input = [d \in {1, 2} |-> NoInput]
    /\ derived = [d \in {1, 2} |-> NotDerived]

\* Agent.__init__ and the Responder it builds: no call has been made, and
\* __last_code is the class attribute's placeholder.
NoContent == [show_defs |-> 0, snippets |-> <<"-">>]
NothingStreamed == [chunks |-> 0, ends |-> 0, late |-> FALSE]
NotResponded == [code |-> <<>>, executed |-> FALSE, certain |-> FALSE, result |-> "-"]

InitAgent ==
    /\ apc = "idle"
    /\ attempt = 0
    /\ on_stream = "NON_FUTURE_FUNCTION"
    /\ content_parts = 0
    /\ full_content = NoContent
    /\ last_code = "iugyftcgvhbjkn"
    /\ stream = NothingStreamed
    /\ outcome = "-"
    /\ responded = NotResponded
    /\ agent_calls = 0

\* The handler has been constructed with FILE_CACHE as file_cache_mode has it.
InitStarted ==
    /\ env_file_cache = <<file_cache_mode>>
    /\ handler = "ready"

NeverPut == [n |-> 0, status_code |-> 0, headers |-> NoHeaders, body |-> <<>>]

\* No connection has been accepted yet.
InitConnections ==
    /\ pc = [r \in Reqs |-> "idle"]
    /\ request = [r \in Reqs |-> NoRequest]
    /\ cache_key = [r \in Reqs |-> NoKey]
    /\ upstream = [r \in Reqs |-> NoUpstream]
    /\ collected_body = [r \in Reqs |-> <<>>]
    /\ response = [r \in Reqs |-> NothingSent]
    /\ error = [r \in Reqs |-> "none"]
    /\ calls = [r \in Reqs |-> 0]
    /\ session_request = [r \in Reqs |-> NotRequested]
    /\ arrivals = 0
    /\ outbound = [k \in Keys |-> 0]
    /\ hadEntry = [r \in Reqs |-> FALSE]
    /\ seen = [r \in Reqs |-> {}]
    /\ touched = [r \in Reqs |-> {}]
    /\ overlap = FALSE
    /\ clean = TRUE

Init ==
    /\ \E start \in InitialStores :
          /\ file_cache_mode = start.mode
          /\ db = start.table
          /\ files = start.dir
    /\ InitConnections
    /\ seeded = (db # {} \/ files # NoFiles)
    /\ last_put = [k \in Keys |-> NeverPut]
    /\ InitHook([cl \in Clients |-> "dict"])
    /\ InitKeyIdle
    /\ InitAgent
    /\ InitStarted

\* ----------------------------------------------------------- the handler
InFlight(r) == pc[r] \notin {"idle", "done"}

\* web.Response(status=400, text="Missing X-Cache-Redirect-To header")
MissingHeaderResponse ==
    [sent |-> "full", status |-> 400, headers |-> NoHeaders, body |-> <<77>>]

\* ReplayResponse without the body argument
ReplayResponse_NoBody(db_cached) ==
    [sent    |-> "full",
     status  |-> db_cached.status_code,
     headers |-> WithHeader(WithoutHeaders(db_cached.headers, FRAMING_HEADERS),
                            "Content-Length", ToString(Len(db_cached.body))),
     body    |-> <<>>]

\* The response of a hit: the stored status and body, the stored headers
\* without the framing ones, and Content-Length set from the body.
ReplayResponse(db_cached) ==
    [sent    |-> "full",
     status  |-> db_cached.status_code,
     headers |-> WithHeader(WithoutHeaders(db_cached.headers, FRAMING_HEADERS),
                            "Content-Length", ToString(Len(db_cached.body))),
     body    |-> db_cached.body]

\* The store handle_request consults: the overlay in read mode, else sqlite.
Consulted(mode) == IF mode = "read" THEN "file_read" ELSE "db_read"
\* Consult reading the overlay whenever FILE_CACHE is set
Consult_OverlayWhenEnabled(mode, table, dir, key) ==
    IF mode # "" THEN GetFileCachedResponse(dir, key)
    ELSE GetCachedResponse(table, key)
\* Consult falling back to sqlite when the overlay has no entry
Consult_ReadFallsBackToDb(mode, table, dir, key) ==
    IF Consulted(mode) = "file_read" /\ GetFileCachedResponse(dir, key) # NotCached
    THEN GetFileCachedResponse(dir, key)
    ELSE GetCachedResponse(table, key)

\* db_cached: _get_file_cached_response in read mode, else _get_cached_response
Consult(mode, table, dir, key) ==
    IF Consulted(mode) = "file_read" THEN GetFileCachedResponse(dir, key)
    ELSE GetCachedResponse(table, key)

\* MissOutcome falling through to the forwarder in every mode
MissOutcome_AlwaysForward(mode) == "forward"

\* What a miss leads to: RuntimeError in read mode, else _forward_request.
MissOutcome(mode) == IF mode = "read" THEN "raise" ELSE "forward"

\* Cacheable as `200 <= status_code <= 300`
Cacheable_UpTo300(status_code) == 200 <= status_code /\ status_code <= 300

\* `if 200 <= status_code < 300`
Cacheable(status_code) == 200 <= status_code /\ status_code < 300

\* A request arrives: the routing header is read; without it the answer is
\* 400; with it the body is read and the key derived.
Receive(r, q) ==
    /\ handler = "ready"
    /\ pc[r] = "idle"
    /\ \A o \in Reqs : o < r => pc[o] # "idle"
    /\ arrivals < MaxRequests
    /\ arrivals' = arrivals + 1
    /\ request' = [request EXCEPT ![r] = q]
    /\ overlap' = (overlap \/ \E o \in Reqs : InFlight(o))
    /\ IF Falsy(HeaderGet(q.headers, REDIRECT_HEADER))
       THEN /\ response' = [response EXCEPT ![r] = MissingHeaderResponse]
            /\ pc' = [pc EXCEPT ![r] = "done"]
            /\ UNCHANGED <<cache_key, hadEntry>>
       ELSE /\ cache_key' = [cache_key EXCEPT ![r] = KeyOf(q)]
            /\ hadEntry' = [hadEntry EXCEPT ![r] = \E row \in db : row.key = KeyOf(q)]
            /\ pc' = [pc EXCEPT ![r] = "key_derived"]
            /\ UNCHANGED response
    /\ UNCHANGED <<fixed, db, files, upstream, collected_body, error, calls, session_request,
                   outbound, seen, touched, clean>>

\* Lookup waiting for a lock that a forwarding request holds
Lookup_WaitsForForwarder(r) ==
    /\ pc[r] = "key_derived"
    /\ \A o \in Reqs \ {r} : pc[o] \notin {"forwarding", "streaming"}
    /\ LET db_cached == Consult(file_cache_mode, db, files, cache_key[r]) IN
       /\ seen' = [seen EXCEPT ![r] = {row \in db : row.key = cache_key[r]}]
       /\ touched' = [touched EXCEPT ![r] = @ \cup {Consulted(file_cache_mode)}]
       /\ IF db_cached.found
          THEN /\ response' = [response EXCEPT ![r] = ReplayResponse(db_cached)]
               /\ pc' = [pc EXCEPT ![r] = "done"]
               /\ UNCHANGED error
          ELSE IF db_cached.raised
          THEN /\ error' = [error EXCEPT ![r] = "TypeError"]
               /\ pc' = [pc EXCEPT ![r] = "done"]
               /\ UNCHANGED response
          ELSE IF MissOutcome(file_cache_mode) = "raise"
          THEN /\ error' = [error EXCEPT ![r] = "ReplayMiss"]
               /\ pc' = [pc EXCEPT ![r] = "done"]
               /\ UNCHANGED response
          ELSE /\ pc' = [pc EXCEPT ![r] = "forwarding"]
               /\ UNCHANGED <<response, error>>
    /\ UNCHANGED <<fixed, db, files, request, cache_key, upstream, collected_body,
                   calls, session_request, arrivals, outbound, hadEntry, overlap, clean>>

\* The store is read: a hit is replayed; a miss in read mode raises, and
\* otherwise goes on to forward.
Lookup(r) ==
    /\ pc[r] = "key_derived"
    /\ LET db_cached == Consult(file_cache_mode, db, files, cache_key[r]) IN
       /\ seen' = [seen EXCEPT ![r] = {row \in db : row.key = cache_key[r]}]
       /\ touched' = [touched EXCEPT ![r] = @ \cup {Consulted(file_cache_mode)}]
       /\ IF db_cached.found
          THEN /\ response' = [response EXCEPT ![r] = ReplayResponse(db_cached)]
               /\ pc' = [pc EXCEPT ![r] = "done"]
               /\ UNCHANGED error
          ELSE IF db_cached.raised
          THEN /\ error' = [error EXCEPT ![r] = "TypeError"]
               /\ pc' = [pc EXCEPT ![r] = "done"]
               /\ UNCHANGED response
          ELSE IF MissOutcome(file_cache_mode) = "raise"
          THEN /\ error' = [error EXCEPT ![r] = "ReplayMiss"]
               /\ pc' = [pc EXCEPT ![r] = "done"]
               /\ UNCHANGED response
          ELSE /\ pc' = [pc EXCEPT ![r] = "forwarding"]
               /\ UNCHANGED <<response, error>>
    /\ UNCHANGED <<fixed, db, files, request, cache_key, upstream, collected_body,
                   calls, session_request, arrivals, outbound, hadEntry, overlap, clean>>

\* session.request(...) answers: the status and the cleaned headers are set
\* on the stream response, which is prepared.
Connect(r, status, headers) ==
    /\ pc[r] = "forwarding"
    /\ calls' = [calls EXCEPT ![r] = @ + 1]
    /\ session_request' = [session_request EXCEPT ![r] =
                              ForwardRequest(request[r], TargetOf(request[r]))]
    /\ outbound' = [outbound EXCEPT ![cache_key[r]] = @ + 1]
    /\ upstream' = [upstream EXCEPT ![r] = [status |-> status, headers |-> headers]]
    /\ response' = [response EXCEPT ![r] =
                       [sent    |-> "streaming",
                        status  |-> status,
                        headers |-> WithoutHeaders(headers, FRAMING_HEADERS),
                        body    |-> <<>>]]
    /\ clean' = (clean /\ status \in 200..299)
    /\ pc' = [pc EXCEPT ![r] = "streaming"]
    /\ UNCHANGED <<fixed, db, files, request, cache_key, collected_body, error,
                   arrivals, hadEntry, seen, touched, overlap>>

\* ConnectFail trying the request again instead of raising
ConnectFail_Retries(r) ==
    /\ pc[r] = "forwarding"
    /\ calls[r] < 2
    /\ calls' = [calls EXCEPT ![r] = @ + 1]
    /\ session_request' = [session_request EXCEPT ![r] =
                              ForwardRequest(request[r], TargetOf(request[r]))]
    /\ outbound' = [outbound EXCEPT ![cache_key[r]] = @ + 1]
    /\ clean' = FALSE
    /\ UNCHANGED <<fixed, db, files, pc, request, cache_key, upstream, collected_body,
                   response, error, arrivals, hadEntry, seen, touched, overlap>>

\* session.request(...) raises: upstream cannot be reached.
ConnectFail(r) ==
    /\ pc[r] = "forwarding"
    /\ calls' = [calls EXCEPT ![r] = @ + 1]
    /\ session_request' = [session_request EXCEPT ![r] =
                              ForwardRequest(request[r], TargetOf(request[r]))]
    /\ outbound' = [outbound EXCEPT ![cache_key[r]] = @ + 1]
    /\ error' = [error EXCEPT ![r] = "UpstreamForwardingFailure"]
    /\ clean' = FALSE
    /\ pc' = [pc EXCEPT ![r] = "done"]
    /\ UNCHANGED <<fixed, db, files, request, cache_key, upstream, collected_body,
                   response, arrivals, hadEntry, seen, touched, overlap>>

\* StreamChunk saving what has been collected so far at every chunk
StreamChunk_SavesEarly(r) ==
    /\ pc[r] = "streaming"
    /\ Len(collected_body[r]) < MaxChunks
    /\ LET chunk == ChunkOf(r, Len(collected_body[r]) + 1) IN
       /\ collected_body' = [collected_body EXCEPT ![r] = @ \o chunk]
       /\ response' = [response EXCEPT ![r].body = @ \o chunk]
       /\ db' = SaveResponse(db, cache_key[r], upstream[r].status, upstream[r].headers,
                             collected_body[r] \o chunk)
    /\ touched' = [touched EXCEPT ![r] = @ \cup {"db_write"}]
    /\ clean' = FALSE
    /\ UNCHANGED <<fixed, files, pc, request, cache_key, upstream, error, calls,
                   session_request, arrivals, outbound, hadEntry, seen, overlap>>

\* StreamChunk collecting the chunk without writing it to the caller
StreamChunk_Buffered(r) ==
    /\ pc[r] = "streaming"
    /\ Len(collected_body[r]) < MaxChunks
    /\ LET chunk == ChunkOf(r, Len(collected_body[r]) + 1) IN
       collected_body' = [collected_body EXCEPT ![r] = @ \o chunk]
    /\ UNCHANGED <<fixed, db, files, pc, request, cache_key, upstream, response, error,
                   calls, session_request, arrivals, outbound, hadEntry, seen, touched,
                   overlap, clean>>

\* One round of `async for chunk`: the chunk is collected, then written.
StreamChunk(r) ==
    /\ pc[r] = "streaming"
    /\ Len(collected_body[r]) < MaxChunks
    /\ LET chunk == ChunkOf(r, Len(collected_body[r]) + 1) IN
       /\ collected_body' = [collected_body EXCEPT ![r] = @ \o chunk]
       /\ response' = [response EXCEPT ![r].body = @ \o chunk]
    /\ UNCHANGED <<fixed, db, files, pc, request, cache_key, upstream, error, calls, session_request,
                   arrivals, outbound, hadEntry, seen, touched, overlap, clean>>

\* StreamReadFail saving what was collected before it raises
StreamReadFail_SavesPartial(r) ==
    /\ pc[r] = "streaming"
    /\ error' = [error EXCEPT ![r] = "UpstreamForwardingFailure"]
    /\ db' = SaveResponse(db, cache_key[r], upstream[r].status, upstream[r].headers,
                          collected_body[r])
    /\ clean' = FALSE
    /\ pc' = [pc EXCEPT ![r] = "done"]
    /\ UNCHANGED <<fixed, files, request, cache_key, upstream, collected_body,
                   response, calls, session_request, arrivals, outbound, hadEntry, seen, touched,
                   overlap>>

\* Reading the next chunk raises: upstream failed while streaming.
StreamReadFail(r) ==
    /\ pc[r] = "streaming"
    /\ error' = [error EXCEPT ![r] = "UpstreamForwardingFailure"]
    /\ clean' = FALSE
    /\ pc' = [pc EXCEPT ![r] = "done"]
    /\ UNCHANGED <<fixed, db, files, request, cache_key, upstream, collected_body,
                   response, calls, session_request, arrivals, outbound, hadEntry, seen, touched,
                   overlap>>

\* StreamWriteFail saving what was collected when the caller's stream fails
StreamWriteFail_SavesCollected(r) ==
    /\ pc[r] = "streaming"
    /\ Len(collected_body[r]) < MaxChunks
    /\ collected_body' = [collected_body EXCEPT ![r] =
                             @ \o ChunkOf(r, Len(collected_body[r]) + 1)]
    /\ db' = SaveResponse(db, cache_key[r], upstream[r].status, upstream[r].headers,
                          collected_body'[r])
    /\ error' = [error EXCEPT ![r] = "StreamWriteFailure"]
    /\ clean' = FALSE
    /\ pc' = [pc EXCEPT ![r] = "done"]
    /\ UNCHANGED <<fixed, files, request, cache_key, upstream, response, calls,
                   session_request, arrivals, outbound, hadEntry, seen, touched, overlap>>

\* stream_response.write(chunk) raises: the chunk was collected, not delivered.
StreamWriteFail(r) ==
    /\ pc[r] = "streaming"
    /\ Len(collected_body[r]) < MaxChunks
    /\ collected_body' = [collected_body EXCEPT ![r] =
                             @ \o ChunkOf(r, Len(collected_body[r]) + 1)]
    /\ error' = [error EXCEPT ![r] = "StreamWriteFailure"]
    /\ clean' = FALSE
    /\ pc' = [pc EXCEPT ![r] = "done"]
    /\ UNCHANGED <<fixed, db, files, request, cache_key, upstream, response, calls, session_request,
                   arrivals, outbound, hadEntry, seen, touched, overlap>>

\* The body ends: _forward_request returns (status, headers, body).
StreamEnd(r) ==
    /\ pc[r] = "streaming"
    /\ pc' = [pc EXCEPT ![r] = "forwarded"]
    /\ UNCHANGED <<fixed, db, files, request, cache_key, upstream, collected_body,
                   response, error, calls, session_request, arrivals, outbound, hadEntry, seen, touched,
                   overlap, clean>>

\* handle_request returns stream_response: the server ends the body.
Returned(sent) == [sent EXCEPT !.sent = "streamed"]

\* SaveDb saving the headers as they were relayed, without the framing ones
SaveDb_SavesCleanHeaders(r) ==
    /\ pc[r] = "forwarded"
    /\ IF Cacheable(upstream[r].status)
       THEN /\ db' = SaveResponse(db, cache_key[r], upstream[r].status,
                                  WithoutHeaders(upstream[r].headers, FRAMING_HEADERS),
                                  collected_body[r])
            /\ touched' = [touched EXCEPT ![r] = @ \cup {"db_write"}]
            /\ IF file_cache_mode = "write"
               THEN /\ pc' = [pc EXCEPT ![r] = "db_saved"]
                    /\ UNCHANGED response
               ELSE /\ pc' = [pc EXCEPT ![r] = "done"]
                    /\ response' = [response EXCEPT ![r] = Returned(@)]
       ELSE /\ pc' = [pc EXCEPT ![r] = "done"]
            /\ response' = [response EXCEPT ![r] = Returned(@)]
            /\ UNCHANGED <<db, touched>>
    /\ UNCHANGED <<fixed, files, request, cache_key, upstream, collected_body,
                   error, calls, session_request, arrivals, outbound, hadEntry, seen,
                   overlap, clean>>

\* SaveDb leaving sqlite alone in write mode, where the overlay is written
SaveDb_OverlayOnly(r) ==
    /\ pc[r] = "forwarded"
    /\ IF Cacheable(upstream[r].status)
       THEN IF file_cache_mode = "write"
            THEN /\ pc' = [pc EXCEPT ![r] = "db_saved"]
                 /\ UNCHANGED <<db, touched, response>>
            ELSE /\ db' = SaveResponse(db, cache_key[r], upstream[r].status,
                                       upstream[r].headers, collected_body[r])
                 /\ touched' = [touched EXCEPT ![r] = @ \cup {"db_write"}]
                 /\ pc' = [pc EXCEPT ![r] = "done"]
                 /\ response' = [response EXCEPT ![r] = Returned(@)]
       ELSE /\ pc' = [pc EXCEPT ![r] = "done"]
            /\ response' = [response EXCEPT ![r] = Returned(@)]
            /\ UNCHANGED <<db, touched>>
    /\ UNCHANGED <<fixed, files, request, cache_key, upstream, collected_body,
                   error, calls, session_request, arrivals, outbound, hadEntry, seen,
                   overlap, clean>>

\* After streaming: a 2xx response is saved to sqlite; any other is not.
SaveDb(r) ==
    /\ pc[r] = "forwarded"
    /\ IF Cacheable(upstream[r].status)
       THEN /\ db' = SaveResponse(db, cache_key[r], upstream[r].status,
                                  upstream[r].headers, collected_body[r])
            /\ touched' = [touched EXCEPT ![r] = @ \cup {"db_write"}]
            /\ IF file_cache_mode = "write"
               THEN /\ pc' = [pc EXCEPT ![r] = "db_saved"]
                    /\ UNCHANGED response
               ELSE /\ pc' = [pc EXCEPT ![r] = "done"]
                    /\ response' = [response EXCEPT ![r] = Returned(@)]
       ELSE /\ pc' = [pc EXCEPT ![r] = "done"]
            /\ response' = [response EXCEPT ![r] = Returned(@)]
            /\ UNCHANGED <<db, touched>>
    /\ UNCHANGED <<fixed, files, request, cache_key, upstream, collected_body,
                   error, calls, session_request, arrivals, outbound, hadEntry, seen,
                   overlap, clean>>

\* db.execute / db.commit raises: nothing is saved and the handler raises.
SaveDbFail(r) ==
    /\ pc[r] = "forwarded"
    /\ Cacheable(upstream[r].status)
    /\ touched' = [touched EXCEPT ![r] = @ \cup {"db_write_failed"}]
    /\ error' = [error EXCEPT ![r] = "StoreWriteFailure"]
    /\ clean' = FALSE
    /\ pc' = [pc EXCEPT ![r] = "done"]
    /\ UNCHANGED <<fixed, db, files, request, cache_key, upstream, collected_body,
                   response, calls, session_request, arrivals, outbound, hadEntry, seen, overlap>>

\* Write mode: the response is saved to the overlay as well.
SaveFile(r) ==
    /\ pc[r] = "db_saved"
    /\ files' = SaveFileCachedResponse(files, cache_key[r], upstream[r].status,
                                       upstream[r].headers, collected_body[r])
    /\ touched' = [touched EXCEPT ![r] = @ \cup {"file_write"}]
    /\ response' = [response EXCEPT ![r] = Returned(@)]
    /\ pc' = [pc EXCEPT ![r] = "done"]
    /\ UNCHANGED <<fixed, db, request, cache_key, upstream, collected_body,
                   error, calls, session_request, arrivals, outbound, hadEntry, seen,
                   overlap, clean>>

\* What a failed write leaves in the overlay directory: open(file_path, 'w')
\* raised and the directory is as it was, or json.dump raised after open had
\* truncated the file, which then holds text that json.load rejects.
FailedFileWrite(dir, key) ==
    {dir,
     [p \in DOMAIN dir \cup {FileCachePath(key)} |->
        IF p = FileCachePath(key) THEN InvalidJsonFile ELSE dir[p]]}

\* SaveFileFail letting the exception out of _save_file_cached_response
SaveFileFail_Propagates(r) ==
    /\ pc[r] = "db_saved"
    /\ clean' = FALSE
    /\ files' \in FailedFileWrite(files, cache_key[r])
    /\ touched' = [touched EXCEPT ![r] = @ \cup {"file_write_failed"}]
    /\ error' = [error EXCEPT ![r] = "StoreWriteFailure"]
    /\ pc' = [pc EXCEPT ![r] = "done"]
    /\ UNCHANGED <<fixed, db, request, cache_key, upstream, collected_body,
                   response, calls, session_request, arrivals, outbound, hadEntry, seen, overlap>>

\* Write mode: open(file_path, 'w') or json.dump raises; the exception is
\* printed and swallowed, and the handler returns the stream response.
SaveFileFail(r) ==
    /\ pc[r] = "db_saved"
    /\ clean' = FALSE
    /\ files' \in FailedFileWrite(files, cache_key[r])
    /\ touched' = [touched EXCEPT ![r] = @ \cup {"file_write_failed"}]
    /\ response' = [response EXCEPT ![r] = Returned(@)]
    /\ pc' = [pc EXCEPT ![r] = "done"]
    /\ UNCHANGED <<fixed, db, request, cache_key, upstream, collected_body,
                   error, calls, session_request, arrivals, outbound, hadEntry, seen, overlap>>

\* Write mode: file_path.parent.mkdir raises before the try block; nothing
\* catches it and the exception leaves handle_request.
SaveFileMkdirFail(r) ==
    /\ pc[r] = "db_saved"
    /\ clean' = FALSE
    /\ touched' = [touched EXCEPT ![r] = @ \cup {"mkdir_failed"}]
    /\ error' = [error EXCEPT ![r] = "StoreWriteFailure"]
    /\ pc' = [pc EXCEPT ![r] = "done"]
    /\ UNCHANGED <<fixed, db, files, request, cache_key, upstream, collected_body,
                   response, calls, session_request, arrivals, outbound, hadEntry, seen, overlap>>

\* The connection is over: handle_request's frame is gone and the slot free.
Close(r) ==
    /\ pc[r] = "done"
    /\ arrivals < MaxRequests
    /\ pc' = [pc EXCEPT ![r] = "idle"]
    /\ request' = [request EXCEPT ![r] = NoRequest]
    /\ cache_key' = [cache_key EXCEPT ![r] = NoKey]
    /\ upstream' = [upstream EXCEPT ![r] = NoUpstream]
    /\ collected_body' = [collected_body EXCEPT ![r] = <<>>]
    /\ response' = [response EXCEPT ![r] = NothingSent]
    /\ error' = [error EXCEPT ![r] = "none"]
    /\ calls' = [calls EXCEPT ![r] = 0]
    /\ session_request' = [session_request EXCEPT ![r] = NotRequested]
    /\ hadEntry' = [hadEntry EXCEPT ![r] = FALSE]
    /\ seen' = [seen EXCEPT ![r] = {}]
    /\ touched' = [touched EXCEPT ![r] = {}]
    /\ UNCHANGED <<fixed, db, files, arrivals, outbound, overlap, clean>>

Next ==
    \E r \in Reqs :
        \/ \E q \in Inbound(r) : Receive(r, q)
        \/ Lookup(r)
        \/ \E answer \in UpstreamAnswers : Connect(r, answer.status, answer.headers)
        \/ ConnectFail(r)
        \/ StreamChunk(r)
        \/ StreamReadFail(r)
        \/ StreamWriteFail(r)
        \/ StreamEnd(r)
        \/ SaveDb(r)
        \/ SaveDbFail(r)
        \/ SaveFile(r)
        \/ SaveFileFail(r)
        \/ SaveFileMkdirFail(r)
        \/ Close(r)

Spec == Init /\ [][Next]_vars

\* The event loop runs every handler that can take a step: the store answers
\* a lookup and a save, and upstream answers or fails and its body ends.
SpecFair ==
    Spec /\ \A r \in Reqs :
        /\ WF_vars(Lookup(r))
        /\ WF_vars((\E answer \in UpstreamAnswers :
                        Connect(r, answer.status, answer.headers)) \/ ConnectFail(r))
        /\ WF_vars(StreamChunk(r) \/ StreamReadFail(r) \/ StreamWriteFail(r) \/ StreamEnd(r))
        /\ WF_vars(SaveDb(r) \/ SaveDbFail(r))
        /\ WF_vars(SaveFile(r) \/ SaveFileFail(r) \/ SaveFileMkdirFail(r))

\* ------------------------------------------- the persistent store alone
\* What put is called with.
PutStatuses == {200, 404}
PutHeaders == {PlainHeaders, FramedHeaders}
PutBodies == {<<>>, <<1>>, <<1, 2>>}

InitStore ==
    /\ file_cache_mode = ""
    /\ db = {}
    /\ files = NoFiles
    /\ InitConnections
    /\ seeded = FALSE
    /\ last_put = [k \in Keys |-> NeverPut]
    /\ InitHook([cl \in Clients |-> "dict"])
    /\ InitKeyIdle
    /\ InitAgent
    /\ InitStarted

\* put(key, status, headers, body) on the store: _save_response
Put(k, status_code, headers, body) ==
    /\ last_put[k].n < MaxPuts
    /\ db' = SaveResponse(db, k, status_code, headers, body)
    /\ last_put' = [last_put EXCEPT ![k] =
                       [n |-> @.n + 1, status_code |-> status_code,
                        headers |-> headers, body |-> body]]
    /\ UNCHANGED <<file_cache_mode, files, connVars, seeded, hookVars, keyVars,
                   startVars, agentVars>>

NextStore ==
    \E k \in Keys, status_code \in PutStatuses, headers \in PutHeaders,
       body \in PutBodies : Put(k, status_code, headers, body)

SpecStore == InitStore /\ [][NextStore]_vars

\* ------------------------------------------------- the overlay alone
\* What _save_file_cached_response is called with: bodies of every length
\* modulo three, with the bytes 0 and 255 among them.
PutFileBodies == {<<>>, <<0>>, <<255>>, <<1, 2>>, <<255, 254, 253>>, <<97, 0, 255, 16>>}
PutFileEntries ==
    {[status_code |-> 200, headers |-> PlainHeaders, body |-> b] : b \in PutFileBodies}
      \cup {[status_code |-> 200, headers |-> FramedHeaders, body |-> <<1, 2>>],
            [status_code |-> 404, headers |-> FramedHeaders, body |-> <<97, 0, 255, 16>>],
            [status_code |-> 404, headers |-> PlainHeaders, body |-> <<>>]}

\* The overlay directory is empty, or holds a file left unreadable.
InitOverlay ==
    /\ file_cache_mode = "write"
    /\ db = {}
    /\ files \in {NoFiles, [p \in {FileCachePath(KeyA)} |-> InvalidJsonFile]}
    /\ InitConnections
    /\ seeded = FALSE
    /\ last_put = [k \in Keys |-> NeverPut]
    /\ InitHook([cl \in Clients |-> "dict"])
    /\ InitKeyIdle
    /\ InitAgent
    /\ InitStarted

\* _save_file_cached_response(cache_key, status_code, headers, body)
PutFile(k, status_code, headers, body) ==
    /\ last_put[k].n < MaxPuts
    /\ files' = SaveFileCachedResponse(files, k, status_code, headers, body)
    /\ last_put' = [last_put EXCEPT ![k] =
                       [n |-> @.n + 1, status_code |-> status_code,
                        headers |-> headers, body |-> body]]
    /\ UNCHANGED <<file_cache_mode, db, connVars, seeded, hookVars, keyVars,
                   startVars, agentVars>>

NextOverlay ==
    \E k \in Keys, entry \in PutFileEntries :
        PutFile(k, entry.status_code, entry.headers, entry.body)

SpecOverlay == InitOverlay /\ [][NextOverlay]_vars

\* ------------------------------------ the server lifecycle and the hook
handlerVars == <<file_cache_mode, db, files, connVars, seeded, last_put, keyVars,
                 startVars, agentVars>>

\* Client x keeps its custom headers in a dict, client y in another Mapping.
ClientKinds == [cl \in Clients |-> IF cl = "x" THEN "dict" ELSE "mapping"]

InitHookOnly ==
    /\ file_cache_mode = ""
    /\ db = {}
    /\ files = NoFiles
    /\ InitConnections
    /\ seeded = FALSE
    /\ last_put = [k \in Keys |-> NeverPut]
    /\ InitHook(ClientKinds)
    /\ InitKeyIdle
    /\ InitAgent
    /\ InitStarted

Running(t) == hpc[t] \notin {"idle", "returned", "raised"}
Listening(p) == \E s \in servers : s.port = p /\ s.state = "listening"

AlreadyHooked_Never(headers) == FALSE

\* `REDIRECT_HEADER in client._custom_headers`
AlreadyHooked(headers) == REDIRECT_HEADER \in DOMAIN headers.items

\* A caller calls hook_openai(client) on a RequestCache.  Callers differ in
\* nothing but their names: the second one is used when the first is busy.
HookCall(t, c, cl) ==
    /\ ~Running(t)
    /\ \A o \in Callers : o < t => Running(o)
    /\ hook_calls < MaxHookCalls
    /\ hook_calls' = hook_calls + 1
    /\ hcall' = [hcall EXCEPT ![t] = [cache |-> c, client |-> cl, wport |-> NoPort,
                                      again |-> c \in hooked[cl],
                                      first |-> c \notin called]]
    /\ called' = called \cup {c}
    /\ hpc' = [hpc EXCEPT ![t] = "start"]
    /\ herror' = [herror EXCEPT ![t] = "none"]
    /\ hook_overlap' = (hook_overlap \/ \E o \in Callers : Running(o))
    /\ UNCHANGED <<handlerVars, port, servers, spawned, base_url, custom_headers,
                   polls, hooked, ready_seen>>

\* StartCheck without the early return
StartCheck_AlwaysStart(t) ==
    /\ hpc[t] = "start"
    /\ hpc' = [hpc EXCEPT ![t] = "bind"]
    /\ UNCHANGED <<handlerVars, called, port, servers, spawned, base_url, custom_headers,
                   hcall, herror, polls, hook_calls, hooked, ready_seen, hook_overlap>>

\* __start_idempotently: `if self.__port is not None: return`
StartCheck(t) ==
    /\ hpc[t] = "start"
    /\ hpc' = [hpc EXCEPT ![t] = IF port[hcall[t].cache] # NoPort THEN "check" ELSE "bind"]
    /\ UNCHANGED <<handlerVars, called, port, servers, spawned, base_url, custom_headers,
                   hcall, herror, polls, hook_calls, hooked, ready_seen, hook_overlap>>

\* A socket is bound to port 0, its port kept in self.__port, and closed: the
\* port is one no server is listening on.
BindPort(t, p) ==
    /\ hpc[t] = "bind"
    /\ ~Listening(p)
    /\ port' = [port EXCEPT ![hcall[t].cache] = p]
    /\ hpc' = [hpc EXCEPT ![t] = "spawn"]
    /\ UNCHANGED <<handlerVars, called, servers, spawned, base_url, custom_headers, hcall,
                   herror, polls, hook_calls, hooked, ready_seen, hook_overlap>>

\* multiprocessing.Process(target=cache_server, args=(self.__port, ...)).start()
SpawnServer(t) ==
    /\ hpc[t] = "spawn"
    /\ servers' = servers \cup {[owner |-> hcall[t].cache, port |-> port[hcall[t].cache],
                                 state |-> "starting"]}
    /\ spawned' = [spawned EXCEPT ![hcall[t].cache] = @ + 1]
    /\ hpc' = [hpc EXCEPT ![t] = "enter_wait"]
    /\ UNCHANGED <<handlerVars, called, port, base_url, custom_headers, hcall, herror, polls,
                   hook_calls, hooked, ready_seen, hook_overlap>>

\* _wait_for_server(self.__port) is called.
EnterWait(t) ==
    /\ hpc[t] = "enter_wait"
    /\ hcall' = [hcall EXCEPT ![t].wport = port[hcall[t].cache]]
    /\ hpc' = [hpc EXCEPT ![t] = "wait"]
    /\ UNCHANGED <<handlerVars, called, port, servers, spawned, base_url, custom_headers,
                   herror, polls, hook_calls, hooked, ready_seen, hook_overlap>>

\* The background process starts to listen on its port, unless another
\* process listens there already, in which case site.start() raises.  A
\* process that is slow, or that ends before it listens, stays "starting".
ServerListen(s) ==
    /\ s \in servers /\ s.state = "starting"
    /\ servers' = (servers \ {s})
                    \cup {[s EXCEPT !.state = IF Listening(s.port) THEN "dead"
                                              ELSE "listening"]}
    /\ UNCHANGED <<handlerVars, called, port, spawned, base_url, custom_headers, hpc, hcall,
                   herror, polls, hook_calls, hooked, ready_seen, hook_overlap>>

\* WaitConnect returning after one attempt, connected or not
WaitConnect_ReturnsUnconnected(t) ==
    /\ hpc[t] = "wait"
    /\ polls[t] < MaxPolls
    /\ hpc' = [hpc EXCEPT ![t] = "check"]
    /\ ready_seen' = [ready_seen EXCEPT ![hcall[t].cache] = @ \cup {hcall[t].wport}]
    /\ polls' = [polls EXCEPT ![t] = 0]
    /\ hcall' = [hcall EXCEPT ![t].wport = NoPort]
    /\ UNCHANGED <<handlerVars, called, port, servers, spawned, base_url, custom_headers,
                   herror, hook_calls, hooked, hook_overlap>>

\* One round of _wait_for_server's loop, the timeout not yet elapsed:
\* connect_ex returns 0 and the wait returns, or the loop sleeps.
WaitConnect(t) ==
    /\ hpc[t] = "wait"
    /\ polls[t] < MaxPolls
    /\ IF Listening(hcall[t].wport)
       THEN /\ hpc' = [hpc EXCEPT ![t] = "check"]
            /\ ready_seen' = [ready_seen EXCEPT ![hcall[t].cache] = @ \cup {hcall[t].wport}]
            /\ polls' = [polls EXCEPT ![t] = 0]
            /\ hcall' = [hcall EXCEPT ![t].wport = NoPort]
       ELSE /\ polls' = [polls EXCEPT ![t] = @ + 1]
            /\ UNCHANGED <<hpc, ready_seen, hcall>>
    /\ UNCHANGED <<handlerVars, called, port, servers, spawned, base_url, custom_headers,
                   herror, hook_calls, hooked, hook_overlap>>

\* The timeout has elapsed at the head of the loop: TimeoutError.
WaitTimeout(t) ==
    /\ hpc[t] = "wait"
    /\ polls[t] = MaxPolls
    /\ herror' = [herror EXCEPT ![t] = "TimeoutError"]
    /\ hpc' = [hpc EXCEPT ![t] = "raised"]
    /\ polls' = [polls EXCEPT ![t] = 0]
    /\ hcall' = [hcall EXCEPT ![t].wport = NoPort]
    /\ UNCHANGED <<handlerVars, called, port, servers, spawned, base_url, custom_headers,
                   hook_calls, hooked, ready_seen, hook_overlap>>

\* HeaderCheck returning for every client that carries the routing header,
\* whatever its endpoint
HeaderCheck_NoEndpointAssert(t) ==
    /\ hpc[t] = "check"
    /\ LET c == hcall[t].cache
           cl == hcall[t].client IN
       IF AlreadyHooked(custom_headers[cl])
       THEN /\ hpc' = [hpc EXCEPT ![t] = "returned"]
            /\ hooked' = [hooked EXCEPT ![cl] = @ \cup {c}]
            /\ UNCHANGED herror
       ELSE IF custom_headers[cl].kind # "dict"
            THEN /\ hpc' = [hpc EXCEPT ![t] = "raised"]
                 /\ herror' = [herror EXCEPT ![t] = "AssertionError"]
                 /\ UNCHANGED hooked
            ELSE /\ hpc' = [hpc EXCEPT ![t] = "set_header"]
                 /\ UNCHANGED <<herror, hooked>>
    /\ UNCHANGED <<handlerVars, called, port, servers, spawned, base_url, custom_headers,
                   hcall, polls, hook_calls, ready_seen, hook_overlap>>

\* HeaderCheck without the isinstance assertion
HeaderCheck_NoDictAssert(t) ==
    /\ hpc[t] = "check"
    /\ LET c == hcall[t].cache
           cl == hcall[t].client IN
       IF AlreadyHooked(custom_headers[cl])
       THEN IF base_url[cl] = ProxyUrl(port[c])
            THEN /\ hpc' = [hpc EXCEPT ![t] = "returned"]
                 /\ hooked' = [hooked EXCEPT ![cl] = @ \cup {c}]
                 /\ UNCHANGED herror
            ELSE /\ hpc' = [hpc EXCEPT ![t] = "raised"]
                 /\ herror' = [herror EXCEPT ![t] = "AssertionError"]
                 /\ UNCHANGED hooked
       ELSE /\ hpc' = [hpc EXCEPT ![t] = "set_header"]
            /\ UNCHANGED <<herror, hooked>>
    /\ UNCHANGED <<handlerVars, called, port, servers, spawned, base_url, custom_headers,
                   hcall, polls, hook_calls, ready_seen, hook_overlap>>

\* hook_openai after the start: a client that carries the routing header must
\* point at the proxy, and the call returns; any other client must keep its
\* headers in a dict.
HeaderCheck(t) ==
    /\ hpc[t] = "check"
    /\ LET c == hcall[t].cache
           cl == hcall[t].client IN
       IF AlreadyHooked(custom_headers[cl])
       THEN IF base_url[cl] = ProxyUrl(port[c])
            THEN /\ hpc' = [hpc EXCEPT ![t] = "returned"]
                 /\ hooked' = [hooked EXCEPT ![cl] = @ \cup {c}]
                 /\ UNCHANGED herror
            ELSE /\ hpc' = [hpc EXCEPT ![t] = "raised"]
                 /\ herror' = [herror EXCEPT ![t] = "AssertionError"]
                 /\ UNCHANGED hooked
       ELSE IF custom_headers[cl].kind # "dict"
            THEN /\ hpc' = [hpc EXCEPT ![t] = "raised"]
                 /\ herror' = [herror EXCEPT ![t] = "AssertionError"]
                 /\ UNCHANGED hooked
            ELSE /\ hpc' = [hpc EXCEPT ![t] = "set_header"]
                 /\ UNCHANGED <<herror, hooked>>
    /\ UNCHANGED <<handlerVars, called, port, servers, spawned, base_url, custom_headers,
                   hcall, polls, hook_calls, ready_seen, hook_overlap>>

\* client._custom_headers[REDIRECT_HEADER] = str(client.base_url)
SetHeader(t) ==
    /\ hpc[t] = "set_header"
    /\ custom_headers' = [custom_headers EXCEPT ![hcall[t].client].items =
                             WithHeader(@, REDIRECT_HEADER, base_url[hcall[t].client])]
    /\ hpc' = [hpc EXCEPT ![t] = "set_base_url"]
    /\ UNCHANGED <<handlerVars, called, port, servers, spawned, base_url, hcall, herror,
                   polls, hook_calls, hooked, ready_seen, hook_overlap>>

\* client.base_url = f"http://localhost:{self.__port}/", and the call returns.
SetBaseUrl(t) ==
    /\ hpc[t] = "set_base_url"
    /\ base_url' = [base_url EXCEPT ![hcall[t].client] =
                       EnforceTrailingSlash(ProxyUrl(port[hcall[t].cache]))]
    /\ hooked' = [hooked EXCEPT ![hcall[t].client] = @ \cup {hcall[t].cache}]
    /\ hpc' = [hpc EXCEPT ![t] = "returned"]
    /\ UNCHANGED <<handlerVars, called, port, servers, spawned, custom_headers, hcall,
                   herror, polls, hook_calls, ready_seen, hook_overlap>>

NextHook ==
    \/ \E t \in Callers :
          \/ \E c \in Caches, cl \in Clients : HookCall(t, c, cl)
          \/ StartCheck(t)
          \/ \E p \in Ports : BindPort(t, p)
          \/ SpawnServer(t)
          \/ EnterWait(t)
          \/ WaitConnect(t)
          \/ WaitTimeout(t)
          \/ HeaderCheck(t)
          \/ SetHeader(t)
          \/ SetBaseUrl(t)
    \/ \E s \in servers : ServerListen(s)

SpecHook == InitHookOnly /\ [][NextHook]_vars

\* Clients as their constructor may leave them: client y, whose headers are
\* a Mapping that is no dict, was built with default headers that carry the
\* routing header or not, and with its own endpoint or one on localhost.
PresetHeaders ==
    [kind |-> "mapping", items |-> HeadersOf({<<REDIRECT_HEADER, OriginalUrl("y")>>})]
ClientPresets ==
    {[headers |-> [kind |-> "mapping", items |-> NoHeaders], url |-> OriginalUrl("y")],
     [headers |-> PresetHeaders, url |-> OriginalUrl("y")],
     [headers |-> PresetHeaders, url |-> ProxyUrl(8001)]}

InitHookPreset ==
    /\ file_cache_mode = ""
    /\ db = {}
    /\ files = NoFiles
    /\ InitConnections
    /\ seeded = FALSE
    /\ last_put = [k \in Keys |-> NeverPut]
    /\ port = [c \in Caches |-> NoPort]
    /\ servers = {}
    /\ spawned = [c \in Caches |-> 0]
    /\ \E preset \in ClientPresets :
          /\ base_url = [cl \in Clients |-> IF cl = "y" THEN preset.url
                                            ELSE OriginalUrl(cl)]
          /\ custom_headers = [cl \in Clients |->
                                  IF cl = "y" THEN preset.headers
                                  ELSE [kind |-> "dict", items |-> NoHeaders]]
    /\ hpc = [t \in Callers |-> "idle"]
    /\ hcall = [t \in Callers |-> NoCall]
    /\ herror = [t \in Callers |-> "none"]
    /\ polls = [t \in Callers |-> 0]
    /\ hook_calls = 0
    /\ hooked = [cl \in Clients |-> {}]
    /\ ready_seen = [c \in Caches |-> {}]
    /\ called = {}
    /\ hook_overlap = FALSE
    /\ InitKeyIdle
    /\ InitAgent
    /\ InitStarted

SpecHookPreset == InitHookPreset /\ [][NextHook]_vars

\* The readiness wait runs in the calling thread, which is scheduled again
\* after each sleep and each connection attempt.
SpecHookFair ==
    SpecHook /\ \A t \in Callers : WF_vars(WaitConnect(t)) /\ WF_vars(WaitTimeout(t))

\* ------------------------------------------- the start of the handler
\* What FILE_CACHE may hold when the server process starts.
EnvValues ==
    {<<>>, <<"">>, <<"read">>, <<"write">>, <<"READ">>, <<"readonly">>, <<"Off">>}

\* The server process starts with an overlay directory left by an earlier
\* run and an empty table; the handler is not constructed yet.
InitStart ==
    /\ env_file_cache \in EnvValues
    /\ handler = "unbuilt"
    /\ file_cache_mode = ""
    /\ db = {}
    /\ files = SeedDir
    /\ InitConnections
    /\ seeded = TRUE
    /\ last_put = [k \in Keys |-> NeverPut]
    /\ InitHook([cl \in Clients |-> "dict"])
    /\ InitKeyIdle
    /\ InitAgent

\* CacheHandler.__init__: FILE_CACHE is read and lower-cased; a value other
\* than '', 'read', 'write' raises ValueError, and create_cache_app, with it
\* the server process, ends before any route is served.
Construct ==
    /\ handler = "unbuilt"
    /\ file_cache_mode' = LowerMode(EnvGet(env_file_cache))
    /\ handler' = IF file_cache_mode' \in Modes THEN "ready" ELSE "config_error"
    /\ UNCHANGED <<db, files, connVars, seeded, last_put, hookVars, keyVars,
                   env_file_cache, agentVars>>

NextStart == Construct \/ Next

SpecStart == InitStart /\ [][NextStart]_vars

\* ------------------------------------------- key derivation on its own
\* Two derivations, by the same CacheHandler or by two (_hash_request reads
\* nothing of self).
Derivers == {1, 2}
\* What _hash_request is called with: bodies that are empty, ASCII, a valid
\* two-byte sequence, and bytes that are no valid UTF-8; targets with and
\* without a trailing slash; paths with and without a query.
KeyMethods == {"GET", "POST"}
KeyPaths == {"/v1/a", "/v1/a?x=1"}
KeyBodies == {<<>>, <<97>>, <<255>>, <<97, 255>>, <<195, 169>>, <<195>>}
KeyTargets == {"http://up", "http://up/"}
KeyInputs ==
    [method : KeyMethods, path : KeyPaths, body : KeyBodies, redirect_url : KeyTargets]

InitKey ==
    /\ file_cache_mode = ""
    /\ db = {}
    /\ files = NoFiles
    /\ InitConnections
    /\ seeded = FALSE
    /\ last_put = [k \in Keys |-> NeverPut]
    /\ InitHook([cl \in Clients |-> "dict"])
    /\ InitStarted
    /\ InitAgent
    /\ key_input \in [Derivers -> KeyInputs]
    /\ derived = [d \in Derivers |-> NotDerived]

\* Derive with the number of derivations made so far mixed into the text, as
\* a timestamp or a per-process salt would be
Derive_Salted(d) ==
    /\ ~derived[d].done
    /\ LET i == key_input[d]
           salt == Cardinality({e \in Derivers : derived[e].done})
           text == [CanonicalString(i.method, i.path, i.body, i.redirect_url)
                       EXCEPT !.redirect_url = <<@, salt>>] IN
       derived' = [derived EXCEPT ![d] =
                      [done |-> TRUE, key |-> Sha256Hex(text), request_str |-> text]]
    /\ UNCHANGED <<file_cache_mode, db, files, connVars, seeded, last_put, hookVars,
                   key_input, startVars, agentVars>>

\* Derive hashing the target without its trailing slashes, as the outbound
\* URL is made
Derive_StripsTarget(d) ==
    /\ ~derived[d].done
    /\ LET i == key_input[d]
           out == HashRequest(i.method, i.path, i.body, RStripSlash(i.redirect_url)) IN
       derived' = [derived EXCEPT ![d] =
                      [done |-> TRUE, key |-> out.key, request_str |-> out.request_str]]
    /\ UNCHANGED <<file_cache_mode, db, files, connVars, seeded, last_put, hookVars,
                   key_input, startVars, agentVars>>

\* cache_key, cache_key_str = self._hash_request(method, path, body, redirect_url)
Derive(d) ==
    /\ ~derived[d].done
    /\ LET i == key_input[d]
           out == HashRequest(i.method, i.path, i.body, i.redirect_url) IN
       derived' = [derived EXCEPT ![d] =
                      [done |-> TRUE, key |-> out.key, request_str |-> out.request_str]]
    /\ UNCHANGED <<file_cache_mode, db, files, connVars, seeded, last_put, hookVars,
                   key_input, startVars, agentVars>>

NextKey == \E d \in Derivers : Derive(d)

SpecKey == InitKey /\ [][NextKey]_vars

\* ------------------------------------------------------------- properties
Standard == file_cache_mode \in {"", "write"}
Rows(k) == {row \in db : row.key = k}
Answered(r) == pc[r] = "done"
\* connection r has read the store and found no entry
Missed(r) == pc[r] \notin {"idle", "key_derived"} /\ cache_key[r] # NoKey /\ seen[r] = {}
\* this step is connection r's save to sqlite
SavesDb(r) == "db_write" \in touched'[r] /\ "db_write" \notin touched[r]

\* C1: in standard operation (overlay disabled or write-through) a request
\* that arrives when the persistent store holds an entry for its key makes no
\* outbound call and is answered, in full, with the status and the body of
\* the entry the store held for the key when the request read it.
C1_HitBypassesUpstream ==
    Standard =>
        \A r \in Reqs : hadEntry[r] =>
            /\ calls[r] = 0
            /\ pc[r] \in {"key_derived", "done"}
            /\ Answered(r) =>
                  /\ error[r] = "none"
                  /\ response[r].sent = "full"
                  /\ \E row \in seen[r] :
                        /\ response[r].status = row.status_code
                        /\ response[r].body = row.body

\* C1: an entry a request of this run created is replayed to a later one.
C1_Witness ==
    /\ Standard /\ ~seeded
    /\ \E r \in Reqs : hadEntry[r] /\ Answered(r) /\ Len(response[r].body) = MaxChunks

\* C2: from empty stores every entry of the persistent store and of the
\* overlay has a status in 200..299; a forwarded response with another status
\* reaches the caller with that status and writes neither store; and a request
\* that finds no entry for its key (standard operation) forwards to upstream.
C2_OnlySuccessCached ==
    /\ ~seeded => \A row \in db : row.status_code \in 200..299
    /\ ~seeded => \A k \in Keys : GetFileCachedResponse(files, k).found =>
                      GetFileCachedResponse(files, k).status_code \in 200..299
    /\ \A r \in Reqs : calls[r] > 0 /\ upstream[r].status \notin 200..299
                       /\ error[r] = "none" =>
            /\ response[r].status = upstream[r].status
            /\ touched[r] \cap {"db_write", "file_write"} = {}
            /\ Answered(r) => response[r].sent = "streamed"
                              /\ response[r].body = collected_body[r]
    /\ \A r \in Reqs : Standard /\ Missed(r) => pc[r] = "forwarding" \/ calls[r] = 1

\* C2: a request answered 500 by upstream, then the same request forwarded again.
C2_Witness ==
    /\ ~seeded /\ ~overlap /\ db = {} /\ files = NoFiles
    /\ Answered(1) /\ upstream[1].status = 500 /\ response[1].status = 500
    /\ cache_key[2] = cache_key[1] /\ calls[2] = 1 /\ upstream[2].status = 500
    /\ Answered(2)

\* C3: in read mode no request makes an outbound call, whatever the stores
\* hold, and a request whose key has no overlay file ends in an error with
\* nothing sent.
C3_ReadModeFailsClosed ==
    file_cache_mode = "read" =>
        /\ \A k \in Keys : outbound[k] = 0
        /\ \A r \in Reqs :
              /\ calls[r] = 0
              /\ pc[r] \in {"idle", "key_derived", "done"}
              /\ (Answered(r) /\ cache_key[r] # NoKey
                    /\ FileCachePath(cache_key[r]) \notin DOMAIN files)
                 => error[r] = "ReplayMiss" /\ response[r] = NothingSent

\* C3: the persistent store holds the key's entry, the overlay does not, and
\* the request ended in the replay-miss error.
C3_Witness ==
    /\ file_cache_mode = "read" /\ db = SeedTable /\ files = NoFiles
    /\ \E r \in Reqs : Answered(r) /\ cache_key[r] = KeyA /\ error[r] = "ReplayMiss"

\* The end-to-end scenario: overlay disabled, the stores empty at the start,
\* requests issued one after another, upstream answering 2xx, no write failing.
EndToEnd == file_cache_mode = "" /\ ~seeded /\ ~overlap /\ clean

\* C4: in the end-to-end scenario upstream is called at most once for a key,
\* and exactly once by the time a caller is answered; the caller that was
\* forwarded receives upstream's body, which is the entry's body; every other
\* caller receives the entry's body; and the entry, once there, does not change.
C4_EndToEndPopulation ==
    /\ [](EndToEnd =>
            \A k \in Keys :
                /\ outbound[k] <= 1
                /\ \A r \in Reqs : Answered(r) /\ cache_key[r] = k =>
                      /\ outbound[k] = 1
                      /\ error[r] = "none"
                      /\ Cardinality(Rows(k)) = 1
                      /\ \A row \in Rows(k) : response[r].body = row.body
                      /\ calls[r] = 1 => /\ response[r].sent = "streamed"
                                         /\ response[r].body = collected_body[r]
                      /\ calls[r] = 0 => response[r].sent = "full")
    /\ [][EndToEnd' => \A k \in Keys : Rows(k) # {} => Rows(k)' = Rows(k)]_vars

\* C4: the first caller was forwarded, the second was served the same body.
C4_Witness ==
    /\ EndToEnd /\ outbound[KeyA] = 1
    /\ Answered(1) /\ calls[1] = 1 /\ cache_key[1] = KeyA
    /\ Answered(2) /\ calls[2] = 0 /\ cache_key[2] = KeyA
    /\ request[1].body = request[2].body
    /\ response[2].body = response[1].body /\ Len(response[2].body) = MaxChunks

\* C5 as stated: an entry, once created, is never changed or removed by any
\* later request, under any interleaving.
C5_Original ==
    [][\A k \in Keys : Rows(k) # {} => Rows(k)' = Rows(k)]_vars

\* C5 as amended: an entry is created by the save of a 2xx response for its
\* key and is never removed; it is changed only by the save of a 2xx response
\* by a request for the key that had read the store before the entry was
\* there (a concurrent miss); a request that arrives once the entry exists
\* writes nothing.
C5_EntryCreatedOnceUnlessRaced ==
    /\ [][\A k \in Keys :
            /\ Rows(k) # {} => Rows(k)' # {}
            /\ Rows(k)' # Rows(k) =>
                  \E r \in Reqs :
                      /\ SavesDb(r) /\ cache_key[r] = k
                      /\ upstream[r].status \in 200..299
                      /\ seen[r] = {} /\ ~hadEntry[r]]_vars
    /\ [](\A r \in Reqs : hadEntry[r] => touched[r] \cap {"db_write", "file_write"} = {})

\* C5: one request created the entry, a later one found it and left it.
C5_Witness ==
    /\ ~seeded
    /\ \E r1, r2 \in Reqs :
          /\ "db_write" \in touched[r1] /\ cache_key[r2] = cache_key[r1]
          /\ hadEntry[r2] /\ Answered(r2) /\ touched[r2] = {"db_read"}
          /\ \A row \in Rows(cache_key[r1]) : row.body = collected_body[r1]

\* C6: every request that misses makes its own outbound call, also while
\* another request for the key is in flight; each save leaves exactly one
\* entry for the key, equal to the saving request's response, and leaves the
\* other keys' entries alone: of two saves for a key the later one stands.
C6_ConcurrentMissesLastWriteWins ==
    /\ [](\A r \in Reqs : Standard /\ Missed(r) => pc[r] = "forwarding" \/ calls[r] = 1)
    /\ [][\A r \in Reqs : SavesDb(r) =>
            /\ Cardinality(Rows(cache_key[r])') = 1
            /\ GetCachedResponse(db', cache_key[r])
                 = [found |-> TRUE, raised |-> FALSE,
                    status_code |-> upstream[r].status,
                    headers |-> upstream[r].headers,
                    body |-> collected_body[r]]
            /\ \A k \in Keys \ {cache_key[r]} : Rows(k)' = Rows(k)]_vars

\* C6: two requests for one key both missed, both called upstream and both
\* saved; the entry is the response of the second, not of the first.
C6_Witness ==
    /\ cache_key[1] = cache_key[2] /\ cache_key[1] # NoKey
    /\ \A r \in Reqs : Answered(r) /\ seen[r] = {} /\ calls[r] = 1
                       /\ "db_write" \in touched[r]
    /\ Cardinality(Rows(cache_key[1])) = 1
    /\ GetCachedResponse(db, cache_key[1]).body = collected_body[2]
    /\ collected_body[2] # collected_body[1]
    /\ GetCachedResponse(db, cache_key[1]).status_code = upstream[2].status
    /\ upstream[2].status # upstream[1].status

\* C8: a request without the routing header, or with an empty one, is
\* answered 400 in every mode, with no outbound call and no store operation.
C8_MissingRoutingHeader ==
    \A r \in Reqs :
        (request[r] # NoRequest
            /\ HeaderGet(request[r].headers, "X-Cache-Redirect-To") \in {<<>>, <<"">>})
        => /\ Answered(r)
           /\ response[r].sent = "full" /\ response[r].status = 400
           /\ error[r] = "none"
           /\ calls[r] = 0 /\ touched[r] = {} /\ cache_key[r] = NoKey

\* C8: in read mode, one request without the header and one with it empty.
C8_Witness ==
    /\ file_cache_mode = "read"
    /\ request[1] = InboundNoTarget(1) /\ response[1].status = 400
    /\ request[2] = InboundEmptyTarget(2) /\ response[2].status = 400

\* C9: the step at which the upstream call fails (before a response, or while
\* the body streams) ends the request and leaves both stores as they were; a
\* request that ended so made one outbound call, wrote nothing and was never
\* sent the end of a response; a request that finds no entry forwards.
C9_ForwardingFailureNotCached ==
    /\ [][\A r \in Reqs :
            (error'[r] = "UpstreamForwardingFailure" /\ error[r] = "none")
            => pc'[r] = "done" /\ db' = db /\ files' = files]_vars
    /\ [](\A r \in Reqs : error[r] = "UpstreamForwardingFailure" =>
            /\ Answered(r) /\ calls[r] = 1
            /\ touched[r] \cap {"db_write", "file_write"} = {}
            /\ response[r].sent \in {"none", "streaming"})
    /\ [](\A r \in Reqs : Standard /\ Missed(r) => pc[r] = "forwarding" \/ calls[r] = 1)

\* C9: upstream failed while the body streamed; the same request, issued
\* next, is forwarded again.
C9_Witness ==
    /\ ~seeded /\ ~overlap /\ db = {} /\ files = NoFiles
    /\ Answered(1) /\ error[1] = "UpstreamForwardingFailure"
    /\ response[1].sent = "streaming" /\ Len(collected_body[1]) = 1
    /\ cache_key[2] = cache_key[1] /\ calls[2] = 1 /\ pc[2] = "streaming"

\* C7: after any sequence of puts the table holds at most one row per key; get
\* of a key returns the status, headers and body of the latest put to it, and
\* nothing for a key never put; so a put leaves every other key as it was.
C7_PutIsInsertOrReplace ==
    \A k \in Keys :
        /\ Cardinality(Rows(k)) <= 1
        /\ last_put[k].n = 0 => GetCachedResponse(db, k) = NotCached
        /\ last_put[k].n > 0 =>
              GetCachedResponse(db, k)
                = [found |-> TRUE, raised |-> FALSE,
                   status_code |-> last_put[k].status_code,
                   headers |-> last_put[k].headers,
                   body |-> last_put[k].body]

\* C7: one key was put twice, with other content the second time, after
\* another key was put; a third key was never put.
C7_Witness ==
    /\ last_put[KeyA].n = 2 /\ last_put[KeyB].n = 1
    /\ GetCachedResponse(db, KeyA).body = <<1, 2>>
    /\ GetCachedResponse(db, KeyA).status_code = 404
    /\ GetCachedResponse(db, KeyB).body = <<1>>
    /\ \E k \in Keys : last_put[k].n = 0 /\ Rows(k) = {}
    /\ Cardinality(db) = 2

\* C10: the client hook is idempotent.  Calls of hook_openai that follow one
\* another (none begins while another runs): once a call by RequestCache c on
\* client cl has returned, the client's base_url is c's proxy endpoint and its
\* routing header is the endpoint the client had originally, and this stays so
\* after any number of further calls; a further call by c on cl raises nothing,
\* and no step of it changes the client's base_url or headers.
Rehook(t) == Running(t) /\ hcall[t].again

C10_HookIdempotent ==
    /\ [](~hook_overlap =>
            \A cl \in Clients : \A c \in hooked[cl] :
               /\ base_url[cl] = ProxyUrl(port[c])
               /\ REDIRECT_HEADER \in DOMAIN custom_headers[cl].items
               /\ custom_headers[cl].items[REDIRECT_HEADER] = OriginalUrl(cl)
               /\ \A t \in Callers :
                     (hcall[t].cache = c /\ hcall[t].client = cl /\ hcall[t].again)
                         => (herror[t] = "none" /\ hpc[t] # "raised"))
    /\ [][(~hook_overlap' /\ \E t \in Callers : Rehook(t))
             => UNCHANGED <<base_url, custom_headers, port>>]_vars

\* A second call by the same RequestCache on the same client has returned.
C10_Witness ==
    /\ ~hook_overlap
    /\ hook_calls >= 2
    /\ \E t \in Callers :
          /\ hpc[t] = "returned"
          /\ hcall[t].again
          /\ hcall[t].cache \in hooked[hcall[t].client]
          /\ base_url[hcall[t].client] = ProxyUrl(port[hcall[t].cache])
          /\ custom_headers[hcall[t].client].items[REDIRECT_HEADER]
                = OriginalUrl(hcall[t].client)


\* C11: server start is idempotent.  Over calls of hook_openai that follow
\* one another, a RequestCache's port, once known, never changes, and the
\* port is allocated and the background process spawned only by the first
\* call made on that RequestCache: no RequestCache spawns a second process.
FirstCallRunning(c) ==
    \E t \in Callers : Running(t) /\ hcall[t].cache = c /\ hcall[t].first

C11_ServerStartIdempotent ==
    /\ [](~hook_overlap => \A c \in Caches : spawned[c] <= 1)
    /\ [][~hook_overlap' =>
            \A c \in Caches :
               /\ port[c] # NoPort => port'[c] = port[c]
               /\ port'[c] # port[c] => FirstCallRunning(c)
               /\ spawned'[c] # spawned[c] => (spawned[c] = 0 /\ FirstCallRunning(c))]_vars

\* C11: a later call on a started RequestCache has returned; one process.
C11_Witness ==
    /\ ~hook_overlap
    /\ \E t \in Callers :
          /\ hpc[t] = "returned" /\ ~hcall[t].first
          /\ spawned[hcall[t].cache] = 1
          /\ port[hcall[t].cache] # NoPort


\* C12: the readiness wait.  _wait_for_server returns normally only in a step
\* in which a connection to its port succeeds, and that port is the one the
\* RequestCache allocated when calls follow one another; it ends in no other
\* way than by TimeoutError, raised once the timeout has elapsed with every
\* attempt failed; and it always ends, one way or the other.
C12_ReadinessWait ==
    /\ [][\A t \in Callers :
            /\ (hpc[t] = "wait" /\ hpc'[t] = "check") =>
                  /\ Listening(hcall[t].wport)
                  /\ hcall[t].wport \in ready_seen'[hcall[t].cache]
                  /\ ~hook_overlap => hcall[t].wport = port[hcall[t].cache]
            /\ (hpc[t] = "wait" /\ hpc'[t] \notin {"wait", "check"}) =>
                  /\ hpc'[t] = "raised" /\ herror'[t] = "TimeoutError"
                  /\ polls[t] = MaxPolls]_vars
    /\ \A t \in Callers : (hpc[t] = "wait") ~> (hpc[t] \in {"check", "raised"})

\* C12: one wait has returned on a connection, another has timed out.
C12_Witness ==
    /\ \E c \in Caches : ready_seen[c] # {} /\ port[c] \in ready_seen[c]
    /\ \E t \in Callers : hpc[t] = "raised" /\ herror[t] = "TimeoutError"


\* C13: key derivation is deterministic and total.  For every (method,
\* path+query, body, target), bodies that are no valid UTF-8 and the empty
\* body included, a derivation that has not been made can be made, and it
\* returns a key and a canonical string: the digest of that string, which
\* holds the method, path and target as given and the body as text.  Two
\* derivations of the same four inputs return the same key and string.
IsText(str) == \A i \in 1..Len(str) : str[i] \in 0..2047

DifferInOne(i, j) ==
    Cardinality({f \in {"method", "path", "body", "redirect_url"} : i[f] # j[f]}) = 1

C14_Original ==
    \A d, e \in Derivers :
        (derived[d].done /\ derived[e].done /\ DifferInOne(key_input[d], key_input[e]))
            => derived[d].key # derived[e].key

\* C14 as amended: two requests that differ in exactly one of method,
\* path+query or target have different keys; two that differ in the body
\* alone have different keys exactly when the bodies still differ once they
\* are decoded as UTF-8 with the invalid bytes dropped.
C14_KeySensitivity ==
    \A d, e \in Derivers :
        (derived[d].done /\ derived[e].done /\ DifferInOne(key_input[d], key_input[e]))
            => IF key_input[d].body = key_input[e].body
               THEN derived[d].key # derived[e].key
               ELSE (derived[d].key # derived[e].key)
                       <=> (Utf8DecodeIgnore(key_input[d].body)
                               # Utf8DecodeIgnore(key_input[e].body))

\* C14: two bodies that are different text have been given different keys.
C14_Witness ==
    /\ derived[1].done /\ derived[2].done
    /\ DifferInOne(key_input[1], key_input[2])
    /\ key_input[1].body = <<97>> /\ key_input[2].body = <<195, 169>>
    /\ derived[1].key # derived[2].key


\* C15 as stated: the handler is constructed for exactly three values of the
\* toggle, compared as given: absent or empty, read, write.
C15_Original ==
    /\ handler = "ready" => env_file_cache \in {<<>>, <<"">>, <<"read">>, <<"write">>}
    /\ handler = "config_error"
          => env_file_cache \notin {<<>>, <<"">>, <<"read">>, <<"write">>}

\* C15 as amended: the toggle is compared without regard to case.  Absent or
\* empty disables the overlay, read and write in any case select the mode;
\* for every other string the construction fails and no request is served.
C15_ToggleValues ==
    /\ handler = "ready" =>
          /\ env_file_cache \in {<<>>, <<"">>, <<"read">>, <<"write">>, <<"READ">>}
          /\ file_cache_mode = "" <=> env_file_cache \in {<<>>, <<"">>}
          /\ file_cache_mode = "read" <=> env_file_cache \in {<<"read">>, <<"READ">>}
          /\ file_cache_mode = "write" <=> env_file_cache = <<"write">>
    /\ handler = "config_error" =>
          env_file_cache \in {<<"readonly">>, <<"Off">>}
    /\ handler # "ready" =>
          /\ arrivals = 0
          /\ \A r \in Reqs : pc[r] = "idle" /\ response[r] = NothingSent
    /\ handler = "unbuilt" => ENABLED Construct

\* C15: FILE_CACHE=READ has put the handler into read mode, and a request
\* has been answered from the overlay.
C15_Witness ==
    /\ env_file_cache = <<"READ">> /\ handler = "ready" /\ file_cache_mode = "read"
    /\ \E r \in Reqs : pc[r] = "done" /\ response[r].sent = "full" /\ response[r].status = 200


\* C16: the response of a hit, from the persistent store or, in read mode,
\* from the overlay, carries no transfer-encoding and no content-encoding
\* header and exactly one content-length header, whose value is the length of
\* the body sent, which is the stored body, whatever length was stored.
Hit(r) == Answered(r) /\ cache_key[r] # NoKey /\ response[r].sent = "full"

C16_ReplayHeaders ==
    \A r \in Reqs : Hit(r) =>
        LET h == response[r].headers
            stored == Consult(file_cache_mode, db, files, cache_key[r]) IN
        /\ \A n \in DOMAIN h : LowerName(n) \notin {"transfer-encoding", "content-encoding"}
        /\ Cardinality({n \in DOMAIN h : LowerName(n) = "content-length"}) = 1
        /\ "Content-Length" \in DOMAIN h
        /\ h["Content-Length"] = ToString(Len(response[r].body))
        /\ (stored.found /\ ~overlap) => response[r].body = stored.body

\* C16: an overlay entry stored with Content-Length 99 and Transfer-Encoding
\* has been replayed in read mode with the length of its two-byte body.
C16_Witness ==
    /\ file_cache_mode = "read"
    /\ \E r \in Reqs :
          /\ Hit(r)
          /\ files[FileCachePath(cache_key[r])].headers["Content-Length"] = "99"
          /\ "Transfer-Encoding" \in DOMAIN files[FileCachePath(cache_key[r])].headers
          /\ response[r].headers["Content-Length"] = "2"


\* C17 as stated: the headers persisted for a forwarded response, in the
\* persistent store and in the overlay, contain none of transfer-encoding,
\* content-length, content-encoding.
Framed(headers) == \E n \in DOMAIN headers : LowerName(n) \in FRAMING_HEADERS
\* this step is connection r's save to the overlay
SavesFile(r) == "file_write" \in touched'[r] /\ "file_write" \notin touched[r]

C17_Original ==
    ~seeded =>
        /\ \A row \in db : ~Framed(JsonLoadsHeaders(row.headers))
        /\ \A k \in Keys : GetFileCachedResponse(files, k).found =>
                 ~Framed(GetFileCachedResponse(files, k).headers)

\* C17 as amended: the headers persisted for a forwarded response, in the
\* persistent store and in the overlay, are the headers upstream sent, the
\* framing ones included; the framing headers are left out of what is relayed
\* downstream only, which carries every other header upstream sent.
C17_PersistedHeadersVerbatim ==
    /\ [][\A r \in Reqs :
            /\ SavesDb(r) =>
                  GetCachedResponse(db', cache_key[r]).headers = upstream[r].headers
            /\ SavesFile(r) =>
                  GetFileCachedResponse(files', cache_key[r]).headers = upstream[r].headers]_vars
    /\ [](\A r \in Reqs : calls[r] > 0 /\ response[r].sent # "none" =>
             /\ ~Framed(response[r].headers)
             /\ \A n \in DOMAIN upstream[r].headers :
                   LowerName(n) \notin FRAMING_HEADERS =>
                      (n \in DOMAIN response[r].headers
                       /\ response[r].headers[n] = upstream[r].headers[n]))

\* C17: a response relayed without its framing headers has been saved, to
\* both stores, with them.
C17_Witness ==
    /\ ~seeded /\ file_cache_mode = "write"
    /\ \E r \in Reqs :
          /\ Answered(r) /\ {"db_write", "file_write"} \subseteq touched[r]
          /\ Framed(upstream[r].headers) /\ ~Framed(response[r].headers)
          /\ Framed(GetCachedResponse(db, cache_key[r]).headers)
          /\ Framed(GetFileCachedResponse(files, cache_key[r]).headers)


C19_ReadModeTouchesOverlayOnly ==
    /\ [][file_cache_mode = "read" => (db' = db /\ files' = files)]_vars
    /\ [](file_cache_mode = "read" =>
             \A r \in Reqs :
                /\ touched[r] \subseteq {"file_read"}
                /\ (Answered(r) /\ cache_key[r] # NoKey) => touched[r] = {"file_read"}
                /\ (Answered(r) /\ cache_key[r] # NoKey
                    /\ FileCachePath(cache_key[r]) \notin DOMAIN files) =>
                      (response[r].sent = "none" /\ error[r] = "ReplayMiss"))

\* C19: a request whose entry is in the persistent store alone was refused.
C19_Witness ==
    /\ file_cache_mode = "read" /\ db = SeedTable /\ files = NoFiles
    /\ \E r \in Reqs :
          /\ Answered(r) /\ cache_key[r] = KeyA /\ Rows(KeyA) # {}
          /\ error[r] = "ReplayMiss" /\ response[r].sent = "none"


\* C20 as stated: an overlay file that cannot be decoded into (status,
\* headers, body), being no JSON, no object, an object that lacks a field, or
\* one whose body is no base64 text, makes the overlay lookup return absent
\* and never raise: a request that read such a file ended as a miss.
Malformed(doc) ==
    \/ doc.json # "object"
    \/ {"status_code", "headers", "body"} \ DOMAIN doc # {}
    \/ ~B64Decode(doc.body).ok

C20_MalformedOverlayIsMiss ==
    \A r \in Reqs :
        (/\ Answered(r) /\ "file_read" \in touched[r]
         /\ FileCachePath(cache_key[r]) \in DOMAIN files
         /\ Malformed(files[FileCachePath(cache_key[r])]))
            => (error[r] = "ReplayMiss"
                /\ GetFileCachedResponse(files, cache_key[r]) = NotCached)


\* a write of connection r's entry has failed, to one store or the other
WriteFailed(r) ==
    touched[r] \cap {"db_write_failed", "mkdir_failed", "file_write_failed"} # {}

\* C21 as the specification states it: a failed write of a cache entry on
\* the miss path, to the persistent store or to the overlay file, ends the
\* request with an error.
C21_Original ==
    \A r \in Reqs : WriteFailed(r) => error[r] # "none"

\* C21 as amended: a failed write to the persistent store, and a failed
\* creation of the overlay directory, end the request with an error, the
\* response never completed and the failing store left as it was; a failed
\* write of the overlay file is caught: the request ends without an error,
\* its response complete, the persistent store holding the entry, and the
\* overlay file either as it was or unreadable (a miss for later reads).
C21_WriteFailures ==
    /\ [](\A r \in Reqs :
            /\ touched[r] \cap {"db_write_failed", "mkdir_failed"} # {} =>
                  /\ error[r] = "StoreWriteFailure"
                  /\ response[r].sent = "streaming"
                  /\ "file_write" \notin touched[r]
            /\ "file_write_failed" \in touched[r] =>
                  /\ error[r] = "none"
                  /\ response[r].sent = "streamed"
                  /\ response[r].body = collected_body[r]
                  /\ "db_write" \in touched[r])
    /\ [][\A r \in Reqs :
            /\ "db_write_failed" \in touched'[r] \ touched[r] =>
                  db' = db /\ files' = files
            /\ "mkdir_failed" \in touched'[r] \ touched[r] =>
                  db' = db /\ files' = files
            /\ "file_write_failed" \in touched'[r] \ touched[r] =>
                  /\ db' = db
                  /\ \A k \in Keys \ {cache_key[r]} :
                        GetFileCachedResponse(files', k) = GetFileCachedResponse(files, k)
                  /\ \/ files' = files
                     \/ GetFileCachedResponse(files', cache_key[r]) = NotCached]_vars

\* C21 witnesses: a request whose overlay write failed has ended normally
\* with the file truncated, while another's persistent write failed.
C21_Witness ==
    \E r \in Reqs :
        /\ "file_write_failed" \in touched[r]
        /\ error[r] = "none"
        /\ response[r].sent = "streamed"
        /\ FileCachePath(cache_key[r]) \in DOMAIN files
        /\ files[FileCachePath(cache_key[r])] = InvalidJsonFile


\* caller t is at the check of hook_openai with a client that carries the
\* routing header and points elsewhere than at the proxy of t's RequestCache
ForeignHooked(t) ==
    /\ hpc[t] = "check"
    /\ AlreadyHooked(custom_headers[hcall[t].client])
    /\ base_url[hcall[t].client] # ProxyUrl(port[hcall[t].cache])

\* C22: a call of the hook on a client that already carries the routing
\* header while its endpoint is not the proxy endpoint of this RequestCache
\* fails with an AssertionError, and the step leaves the endpoint and the
\* headers of every client as they were; the call never counts as a hook.
C22_ForeignHookedClientRejected ==
    [][\A t \in Callers :
          ForeignHooked(t) /\ hpc'[t] # hpc[t] =>
              /\ hpc'[t] = "raised"
              /\ herror'[t] = "AssertionError"
              /\ base_url' = base_url
              /\ custom_headers' = custom_headers
              /\ hooked' = hooked]_vars

\* C22 witness: a call on a client hooked by the other RequestCache has
\* failed, the client still routed through the other one's proxy.
C22_Witness ==
    \E t \in Callers :
        LET c == hcall[t].cache
            cl == hcall[t].client IN
        /\ hpc[t] = "raised" /\ herror[t] = "AssertionError"
        /\ AlreadyHooked(custom_headers[cl])
        /\ hooked[cl] = Caches \ {c}
        /\ port[c] # NoPort
        /\ \E o \in Caches \ {c} : base_url[cl] = ProxyUrl(port[o]) /\ port[o] # port[c]
        /\ HeaderGet(custom_headers[cl].items, REDIRECT_HEADER) = <<OriginalUrl(cl)>>


\* caller t is at the check of hook_openai with a client whose headers are
\* no dict
NonDictAtCheck(t) ==
    hpc[t] = "check" /\ custom_headers[hcall[t].client].kind # "dict"

\* C23 as the specification states it: every call of the hook on a client
\* whose header store is no dict fails, the client left unmodified, whether
\* or not the store carries the routing header.
C23_Original ==
    [][\A t \in Callers :
          NonDictAtCheck(t) /\ hpc'[t] # hpc[t] =>
              /\ hpc'[t] = "raised"
              /\ herror'[t] = "AssertionError"
              /\ base_url' = base_url
              /\ custom_headers' = custom_headers]_vars

\* C23 as amended: no step changes the endpoint or the headers of a client
\* whose header store is no dict; a call of the hook on such a client fails
\* with an AssertionError when the store lacks the routing header, and also
\* when it carries the header while the endpoint is not the proxy; when the
\* store carries the header and the endpoint is the proxy, the call returns
\* without an error.
C23_NonDictStore ==
    [][/\ \A cl \in Clients : custom_headers[cl].kind # "dict" =>
              custom_headers'[cl] = custom_headers[cl] /\ base_url'[cl] = base_url[cl]
       /\ \A t \in Callers :
              NonDictAtCheck(t) /\ hpc'[t] # hpc[t] =>
                  LET cl == hcall[t].client
                      routed == /\ AlreadyHooked(custom_headers[cl])
                                /\ base_url[cl] = ProxyUrl(port[hcall[t].cache]) IN
                  IF routed
                  THEN hpc'[t] = "returned" /\ herror'[t] = "none"
                  ELSE hpc'[t] = "raised" /\ herror'[t] = "AssertionError"]_vars

\* C23 witness: a call on a client whose Mapping already carries the routing
\* header and whose endpoint is the proxy has returned without an error.
C23_Witness ==
    \E t \in Callers :
        LET cl == hcall[t].client IN
        /\ hpc[t] = "returned" /\ herror[t] = "none"
        /\ custom_headers[cl].kind = "mapping"
        /\ AlreadyHooked(custom_headers[cl])
        /\ base_url[cl] = ProxyUrl(port[hcall[t].cache])
        /\ hcall[t].cache \in hooked[cl]


\* C24: a request makes at most one outbound call: none before it has missed,
\* exactly one once a miss in disabled or write-through mode has left
\* FORWARDING, none on a hit, on a missing or empty routing header, and in
\* read mode; a call is only made by a request that is forwarding and has
\* made none; and a request whose upstream call failed has made exactly one
\* call, has ended, and makes no further one.
C24_NoRetries ==
    /\ [](\A r \in Reqs :
            /\ calls[r] <= 1
            /\ pc[r] \in {"idle", "key_derived", "forwarding"} => calls[r] = 0
            /\ Standard /\ Missed(r) /\ pc[r] # "forwarding" => calls[r] = 1
            /\ Hit(r) => calls[r] = 0
            /\ (request[r] # NoRequest /\ Falsy(HeaderGet(request[r].headers, REDIRECT_HEADER)))
                  => calls[r] = 0
            /\ file_cache_mode = "read" => calls[r] = 0
            /\ error[r] = "UpstreamForwardingFailure" => calls[r] = 1 /\ Answered(r))
    /\ [][\A r \in Reqs :
            /\ calls'[r] > calls[r] =>
                  pc[r] = "forwarding" /\ calls[r] = 0 /\ pc'[r] # "forwarding"
            /\ error[r] # "none" => calls'[r] <= calls[r] /\ pc'[r] \in {"done", "idle"}]_vars

\* C24 witness: one request's upstream call failed before any response and
\* was made once; the other request was a hit and made none.
C24_Witness ==
    \E r, o \in Reqs :
        /\ Answered(r) /\ error[r] = "UpstreamForwardingFailure"
        /\ calls[r] = 1 /\ response[r].sent = "none"
        /\ Hit(o) /\ calls[o] = 0 /\ seen[o] # {}


\* The steps of the handler state machine: RECEIVED is the step out of idle,
\* KEY_DERIVED is key_derived, HIT and REPLAY the step from key_derived to
\* done, MISS and FORWARDING are forwarding and streaming, CACHE_WRITE the
\* steps out of forwarded and db_saved, DONE is done.
HandlerSteps ==
    {<<"idle", "key_derived">>, <<"idle", "done">>,
     <<"key_derived", "done">>, <<"key_derived", "forwarding">>,
     <<"forwarding", "streaming">>, <<"forwarding", "done">>,
     <<"streaming", "streaming">>, <<"streaming", "forwarded">>, <<"streaming", "done">>,
     <<"forwarded", "db_saved">>, <<"forwarded", "done">>,
     <<"db_saved", "done">>,
     <<"done", "idle">>}

\* C25: every step of a request is a step of the handler state machine; a
\* request that ends from KEY_DERIVED was replayed an entry or ended in an
\* error; a store is written only by a request whose upstream body has ended,
\* with the whole body; and every request whose key was derived eventually
\* ends: replayed, done, or in an error.
C25_HandlerStateMachine ==
    /\ [][\A r \in Reqs :
            /\ pc'[r] # pc[r] => <<pc[r], pc'[r]>> \in HandlerSteps
            /\ (pc[r] = "key_derived" /\ pc'[r] = "done") =>
                  response'[r].sent = "full" \/ error'[r] # "none"
            /\ (pc[r] = "streaming" /\ pc'[r] = "forwarded") =>
                  collected_body'[r] = collected_body[r]
                  /\ response'[r].body = collected_body[r]
            /\ (touched'[r] \ touched[r]) \cap {"db_write", "file_write"} # {}
                  => /\ pc[r] \in {"forwarded", "db_saved"}
                     /\ collected_body'[r] = collected_body[r]
                     /\ SavesDb(r) => GetCachedResponse(db', cache_key[r]).body = collected_body[r]
                     /\ SavesFile(r) =>
                           GetFileCachedResponse(files', cache_key[r]).body = collected_body[r]]_vars
    /\ [][(db' # db \/ files' # files) =>
            \E r \in Reqs : pc[r] \in {"forwarded", "db_saved"} /\ pc'[r] # pc[r]]_vars
    /\ \A r \in Reqs :
          (pc[r] = "key_derived") ~>
              (pc[r] = "done" /\ \/ response[r].sent \in {"full", "streamed"}
                                 \/ error[r] # "none")

\* C25 witness: a request has gone through the whole machine and is done,
\* its entry written to both stores after its two chunks.
C25_Witness ==
    \E r \in Reqs :
        /\ Answered(r) /\ response[r].sent = "streamed" /\ error[r] = "none"
        /\ touched[r] = {"db_read", "db_write", "file_write"}
        /\ Len(collected_body[r]) = MaxChunks
        /\ GetFileCachedResponse(files, cache_key[r]).body = collected_body[r]


\* connection r is suspended in the upstream call
Suspended(r) == pc[r] \in {"forwarding", "streaming"}

\* C26: while a request is suspended in the upstream call, every other
\* connection can take its next step (be received, read the store, make its
\* own upstream call, stream, save, return), and no step of another
\* connection moves the suspended one.
C26_ForwardingDoesNotBlock ==
    /\ [](\A r \in Reqs : \A o \in Reqs \ {r} : Suspended(r) =>
            /\ (pc[o] = "idle" /\ arrivals < MaxRequests /\ o > r) =>
                  \A q \in Inbound(o) : ENABLED Receive(o, q)
            /\ pc[o] = "key_derived" => ENABLED Lookup(o)
            /\ pc[o] = "forwarding" =>
                  \A answer \in UpstreamAnswers :
                      ENABLED Connect(o, answer.status, answer.headers)
            /\ pc[o] = "streaming" => ENABLED StreamEnd(o)
            /\ pc[o] = "forwarded" => ENABLED SaveDb(o)
            /\ pc[o] = "db_saved" => ENABLED SaveFile(o))
    /\ [][\A r \in Reqs : \A o \in Reqs \ {r} :
            Suspended(r) /\ pc'[o] # pc[o] =>
                pc'[r] = pc[r] /\ response'[r] = response[r] /\ error'[r] = error[r]]_vars

\* C26 witness: the first request still waits for upstream to answer while
\* a request for another key, received after it, has missed, been forwarded,
\* answered in full and saved.
C26_Witness ==
    /\ pc[1] = "forwarding" /\ calls[1] = 0
    /\ overlap
    /\ Answered(2) /\ cache_key[2] # cache_key[1] /\ cache_key[2] # NoKey
    /\ response[2].sent = "streamed" /\ calls[2] = 1
    /\ "db_write" \in touched[2]


\* the first n chunks that upstream sends to connection r, in order
RECURSIVE ChunksUpTo(_, _)
ChunksUpTo(r, n) == IF n = 0 THEN <<>> ELSE ChunksUpTo(r, n - 1) \o ChunkOf(r, n)

\* C27 as the specification states it: at every step of a forwarded request
\* the bytes delivered to the caller equal the bytes collected so far.
C27_Original ==
    \A r \in Reqs : calls[r] > 0 => response[r].body = collected_body[r]

\* C27 as amended: the bytes collected are upstream's chunks in upstream
\* order; while no write to the caller has failed the bytes delivered equal
\* the bytes collected, chunk by chunk, each chunk delivered in the step that
\* collects it and before the next is read; a chunk whose write to the caller
\* fails has been collected and is not delivered, and the request ends there.
C27_StreamedIncrementally ==
    /\ [](\A r \in Reqs : calls[r] > 0 =>
            /\ collected_body[r] = ChunksUpTo(r, Len(collected_body[r]))
            /\ error[r] # "StreamWriteFailure" => response[r].body = collected_body[r]
            /\ error[r] = "StreamWriteFailure" =>
                  /\ Answered(r)
                  /\ response[r].sent = "streaming"
                  /\ response[r].body = ChunksUpTo(r, Len(collected_body[r]) - 1))
    /\ [][\A r \in Reqs :
            (pc[r] = "streaming" /\ collected_body'[r] # collected_body[r]
                /\ error'[r] = "none") =>
               LET chunk == ChunkOf(r, Len(collected_body[r]) + 1) IN
               /\ collected_body'[r] = collected_body[r] \o chunk
               /\ response'[r].body = response[r].body \o chunk
               /\ response'[r].sent = "streaming"
               /\ pc'[r] = "streaming"]_vars

\* C27 witness: the caller has been delivered the first chunk while upstream
\* has not finished: the request is still streaming.
C27_Witness ==
    \E r \in Reqs :
        /\ pc[r] = "streaming" /\ response[r].sent = "streaming"
        /\ response[r].body = ChunkOf(r, 1)
        /\ collected_body[r] = ChunkOf(r, 1)
        /\ ENABLED StreamChunk(r)


\* C28: the outbound request of a forwarded request has the inbound method
\* and body, the URL made of the target without trailing slashes followed by
\* the inbound path and query, and the inbound headers except host and the
\* routing header in any spelling, each with its inbound value; and the
\* status sent to the caller is upstream's.
C28_OutboundRequest ==
    \A r \in Reqs : calls[r] > 0 =>
        LET q == request[r]
            s == session_request[r] IN
        /\ s.method = q.method
        /\ s.data = q.body
        /\ s.url = "http://up/v1/thing"
        /\ TargetOf(q) \in {"http://up", "http://up/"}
        /\ q.path_qs = "/v1/thing"
        /\ DOMAIN s.headers =
              {n \in DOMAIN q.headers : LowerName(n) \notin {"host", "x-cache-redirect-to"}}
        /\ \A n \in DOMAIN s.headers : s.headers[n] = q.headers[n]
        /\ response[r].sent # "none" => response[r].status = upstream[r].status

\* C28 witness: a request whose routing header is spelled in lower case and
\* whose target ends with a slash was forwarded to the URL without the
\* doubled slash, with its credentials as its only header, and upstream's
\* 500 was sent to the caller.
C28_Witness ==
    \E r \in Reqs :
        /\ request[r] = InboundB(r) /\ calls[r] = 1
        /\ TargetOf(request[r]) = "http://up/"
        /\ session_request[r].url = "http://up/v1/thing"
        /\ DOMAIN session_request[r].headers = {"Authorization"}
        /\ session_request[r].data = <<98>>
        /\ response[r].status = 500 /\ upstream[r].status = 500


\* requests q and p have the same method, path and query, body and target
SameFour(q, p) ==
    /\ q.method = p.method /\ q.path_qs = p.path_qs /\ q.body = p.body
    /\ HeaderGet(q.headers, REDIRECT_HEADER) = HeaderGet(p.headers, REDIRECT_HEADER)

\* C29: two requests with the same method, path and query, body and target
\* have the same key, whatever their other headers; the one that finds the
\* entry saved for the other is replayed the other's response; and a key is
\* set when the request is received and changes with no response: it stays
\* as it is until the connection is over.
C29_KeyIgnoresOtherHeaders ==
    /\ [](\A r, o \in Reqs :
            (cache_key[r] # NoKey /\ cache_key[o] # NoKey /\ SameFour(request[r], request[o]))
                => cache_key[r] = cache_key[o])
    /\ [](\A r, o \in Reqs :
            (r # o /\ ~seeded /\ ~overlap /\ Standard /\ Hit(r) /\ Answered(o)
                /\ "db_write" \in touched[o] /\ SameFour(request[r], request[o]))
                => /\ request[r].headers # request[o].headers
                   /\ calls[r] = 0 /\ calls[o] = 1
                   /\ response[r].status = upstream[o].status
                   /\ response[r].body = collected_body[o])
    /\ [][\A r \in Reqs :
            cache_key'[r] # cache_key[r] =>
                \/ pc[r] = "idle" /\ cache_key'[r] = HashRequest(request'[r].method,
                       request'[r].path_qs, request'[r].body, TargetOf(request'[r])).key
                \/ pc'[r] = "idle" /\ cache_key'[r] = NoKey]_vars

\* C29 witness: the second request differs from the first in its
\* credentials only and was replayed the entry saved for the first.
C29_Witness ==
    /\ ~seeded /\ ~overlap
    /\ request[1] = InboundA(1) /\ request[2] = InboundA(2)
    /\ request[1].headers["Authorization"] # request[2].headers["Authorization"]
    /\ cache_key[1] = cache_key[2]
    /\ calls[1] = 1 /\ "db_write" \in touched[1]
    /\ Hit(2) /\ calls[2] = 0 /\ response[2].body = collected_body[1]
    /\ Len(collected_body[1]) > 0


\* derivations d and e are of requests that are forwarded as the same
\* outbound request: the same method, URL and body
SameOutbound(d, e) ==
    /\ key_input[d].method = key_input[e].method
    /\ ForwardUrl(key_input[d].redirect_url, key_input[d].path)
         = ForwardUrl(key_input[e].redirect_url, key_input[e].path)
    /\ key_input[d].body = key_input[e].body

\* C30 as the specification states it: two requests that result in the same
\* outbound method, URL and body derive the same key.
C30_Original ==
    \A d, e \in Derivers :
        (derived[d].done /\ derived[e].done /\ SameOutbound(d, e))
            => derived[d].key = derived[e].key

\* C30 as amended: two requests with the same method, path and query, body
\* and target as declared derive the same key; two requests whose declared
\* targets differ derive different keys, also when the targets differ only by
\* a trailing slash and the outbound method, URL and body are the same.
C30_KeyFromDeclaredTarget ==
    \A d, e \in Derivers :
        (derived[d].done /\ derived[e].done) =>
            /\ key_input[d] = key_input[e] => derived[d].key = derived[e].key
            /\ key_input[d].redirect_url # key_input[e].redirect_url
                  => derived[d].key # derived[e].key

\* C30 witness: two requests that differ only by the trailing slash of the
\* target, forwarded to the same URL, have different keys.
C30_Witness ==
    \E d, e \in Derivers :
        /\ derived[d].done /\ derived[e].done
        /\ key_input[d].redirect_url = "http://up"
        /\ key_input[e].redirect_url = "http://up/"
        /\ [key_input[d] EXCEPT !.redirect_url = ""] = [key_input[e] EXCEPT !.redirect_url = ""]
        /\ SameOutbound(d, e)
        /\ derived[d].key # derived[e].key


\* C31: after any sequence of saves to the overlay, looking up a key that
\* was saved returns the status, headers and body of the latest save to it,
\* whatever bytes the body holds; the entry is the one file named by the key,
\* no two keys share a file, and a save changes no other key's file.
C31_OverlayRoundTrip ==
    /\ [](\A k \in Keys :
            /\ last_put[k].n > 0 =>
                  /\ FileCachePath(k) \in DOMAIN files
                  /\ GetFileCachedResponse(files, k)
                       = [found |-> TRUE, raised |-> FALSE,
                          status_code |-> last_put[k].status_code,
                          headers |-> last_put[k].headers,
                          body |-> last_put[k].body]
            /\ \A j \in Keys : FileCachePath(j) = FileCachePath(k) => j = k)
    /\ [](DOMAIN files \subseteq {FileCachePath(k) : k \in Keys})
    /\ [][\A k \in Keys : last_put'[k] = last_put[k] =>
            /\ (FileCachePath(k) \in DOMAIN files') = (FileCachePath(k) \in DOMAIN files)
            /\ FileCachePath(k) \in DOMAIN files =>
                  files'[FileCachePath(k)] = files[FileCachePath(k)]]_vars

\* C31 witness: a key whose file was unreadable was saved twice, the second
\* time with another status and a four-byte body that holds 0 and 255, and
\* the lookup returns the second save; another key holds a one-byte body.
C31_Witness ==
    /\ last_put[KeyA].n = 2 /\ last_put[KeyB].n = 1
    /\ GetFileCachedResponse(files, KeyA).body = <<97, 0, 255, 16>>
    /\ GetFileCachedResponse(files, KeyA).status_code = 404
    /\ GetFileCachedResponse(files, KeyA).headers = FramedHeaders
    /\ GetFileCachedResponse(files, KeyB).body = <<255>>
    /\ Cardinality(DOMAIN files) = 2


\* a readiness check on port p has succeeded
ObservedReady(p) == \E c \in Caches : p \in ready_seen[c]

\* C32: over calls of the hook that follow one another, in every state in
\* which a client points at the proxy endpoint of a port, a readiness check
\* on that port has succeeded, also when an earlier call ended in the
\* readiness timeout.
C32_RewiredOnlyWhenReady ==
    ~hook_overlap =>
        \A cl \in Clients : \A p \in Ports :
            base_url[cl] = ProxyUrl(p) => ObservedReady(p)


\* the ports of the background processes RequestCache c has spawned
SpawnedPorts(c) == {s.port : s \in {z \in servers : z.owner = c}}

\* C33: when calls of the hook on one RequestCache overlap, the RequestCache
\* spawns one background process on one port, and no caller is at the
\* rewiring of its client unless a readiness check on the RequestCache's
\* port has succeeded.
C33_ConcurrentStartOnce ==
    hook_overlap =>
        /\ \A c \in Caches : spawned[c] <= 1 /\ Cardinality(SpawnedPorts(c)) <= 1
        /\ \A t \in Callers :
              hpc[t] \in {"set_header", "set_base_url"} =>
                  port[hcall[t].cache] \in ready_seen[hcall[t].cache]


\* streaming of connection r stopped early: upstream failed, or the write to
\* the caller did
StoppedEarly(r) == error[r] \in {"UpstreamForwardingFailure", "StreamWriteFailure"}

\* C34: a step that writes an entry for a request, to either store, is taken
\* after the upstream body has ended, and the body it writes is the whole
\* sequence of chunks upstream sent, which is what the caller was streamed;
\* the step at which streaming stops early changes neither store, and a
\* request that stopped early writes nothing, so from empty stores a key whose
\* only requests stopped early has no entry.
C34_NoPartialBody ==
    /\ [][\A r \in Reqs :
            /\ SavesDb(r) =>
                  /\ pc[r] = "forwarded"
                  /\ GetCachedResponse(db', cache_key[r]).body = collected_body[r]
            /\ SavesFile(r) =>
                  /\ pc[r] = "db_saved"
                  /\ GetFileCachedResponse(files', cache_key[r]).body = collected_body[r]
            /\ (SavesDb(r) \/ SavesFile(r)) =>
                  /\ collected_body[r] = response[r].body
                  /\ collected_body[r] = ChunksUpTo(r, Len(collected_body[r]))
                  /\ error[r] = "none"
            /\ (StoppedEarly(r)' /\ ~StoppedEarly(r)) => db' = db /\ files' = files
            /\ (db' # db \/ files' # files) =>
                  \E o \in Reqs : pc[o] \in {"forwarded", "db_saved"} /\ pc'[o] # pc[o]]_vars
    /\ [](\A r \in Reqs : StoppedEarly(r) =>
            /\ touched[r] \cap {"db_write", "file_write", "file_write_failed"} = {}
            /\ pc[r] = "done")
    /\ [](\A k \in Keys :
            (/\ ~seeded
             /\ outbound[k] > 0
             /\ \A r \in Reqs : cache_key[r] = k => StoppedEarly(r)
             /\ arrivals = Cardinality({o \in Reqs : pc[o] # "idle"}))
            => Rows(k) = {} /\ FileCachePath(k) \notin DOMAIN files)

\* C34 witness: in write-through mode the write of the second chunk to the
\* caller failed: two chunks were collected, one delivered, and neither store
\* has an entry for the key.
C34_Witness ==
    \E r \in Reqs :
        /\ file_cache_mode = "write" /\ ~seeded
        /\ error[r] = "StreamWriteFailure" /\ upstream[r].status = 200
        /\ Len(collected_body[r]) = 2 /\ Len(response[r].body) = 1
        /\ Rows(cache_key[r]) = {}
        /\ FileCachePath(cache_key[r]) \notin DOMAIN files


\* C35: in write-through mode, from empty stores, every key that has a file
\* in the overlay has a row in the persistent store, in every reachable
\* state; for a request writes the overlay only after it has written the
\* persistent store, and no row is ever removed.
C35_OverlayImpliesPersistent ==
    /\ [](file_cache_mode = "write" /\ ~seeded =>
            \A k \in Keys :
                FileCachePath(k) \in DOMAIN files => Cardinality(Rows(k)) = 1)
    /\ [][\A r \in Reqs :
            /\ files' # files /\ pc'[r] # pc[r] =>
                  "db_write" \in touched[r] /\ Rows(cache_key[r]) # {}
            /\ \A k \in Keys : Rows(k) # {} => Rows(k)' # {}]_vars

\* C35 witness: write-through mode, no write failed: one key has its entry
\* in both stores, and the next request, for another key, has written the
\* persistent store and not yet the overlay.
C35_Witness ==
    /\ file_cache_mode = "write" /\ ~seeded /\ clean
    /\ \E r, o \in Reqs :
          /\ Answered(r) /\ "file_write" \in touched[r]
          /\ GetFileCachedResponse(files, cache_key[r]).found
          /\ Rows(cache_key[r]) # {}
          /\ pc[o] = "db_saved" /\ cache_key[o] # cache_key[r]
          /\ Rows(cache_key[o]) # {}
          /\ FileCachePath(cache_key[o]) \notin DOMAIN files


\* no request is in flight
Quiet == \A r \in Reqs : pc[r] \in {"idle", "done"}

\* C36: in write-through mode, from empty stores, once no request is in
\* flight, the overlay entry and the persistent-store entry of a key hold the
\* same status and body.
C36_StoresAgreeWhenQuiet ==
    (file_cache_mode = "write" /\ ~seeded /\ Quiet) =>
        \A k \in Keys :
            (GetFileCachedResponse(files, k).found /\ GetCachedResponse(db, k).found) =>
                /\ GetFileCachedResponse(files, k).status_code
                     = GetCachedResponse(db, k).status_code
                /\ GetFileCachedResponse(files, k).body = GetCachedResponse(db, k).body


\* connection r has been served a 2xx response in full
Served2xx(r) ==
    /\ Answered(r) /\ error[r] = "none" /\ cache_key[r] # NoKey
    /\ response[r].sent \in {"full", "streamed"}
    /\ response[r].status \in 200..299

\* C37: in write-through mode every request that has been served a 2xx
\* response, forwarded or replayed from the persistent store, has an overlay
\* entry for its key.
C37_OverlaySnapshotComplete ==
    file_cache_mode = "write" =>
        \A r \in Reqs : Served2xx(r) => GetFileCachedResponse(files, cache_key[r]).found


\* ------------------------------------ the Agent's call loop and its Responder
\* agent.py: the rounds one call may take.
MAX_TOOL_USES == 25

\* The snippets a completion may carry between <ipython> and </ipython>, as
\* written: one of them padded with whitespace.
RawCodes == {"x = 1", "dir(x)", " dir(x) ", "help (x)", "mydir(x)",
             "AgentResult(result=1)", "AgentResult(result='a')", "AgentError('e')"}

\* str.strip() on those snippets.
Strip(raw) == IF raw = " dir(x) " THEN "dir(x)" ELSE raw

\* re.search(r"\bdir\s*\(|\bhelp\s*\(", code) on the stripped snippets: the
\* word boundary keeps mydir( out, \s* lets help ( in.
SearchDirOrHelp(code) == code \in {"dir(x)", "help (x)"}

\* Executor.execute_code's result for each snippet, x being bound in the
\* namespace: None for a statement and for a NameError, the value otherwise.
ExecuteCode(code) ==
    CASE code = "AgentResult(result=1)"   -> "AgentResult[int]"
      [] code = "AgentResult(result='a')" -> "AgentResult[str]"
      [] code = "AgentError('e')"         -> "AgentError"
      [] code = "dir(x)"                  -> "list"
      [] OTHER                            -> "None"

\* check_type(agent_result, agent_output_type), the call asking for an int.
CheckType(result) == result = "AgentResult[int]"

\* The completions the model may produce: prose without a snippet, one or
\* two show_definition tags (one beside a snippet), two snippets, one snippet.
Contents ==
    {[show_defs |-> 0, snippets |-> <<>>],
     [show_defs |-> 1, snippets |-> <<>>],
     [show_defs |-> 2, snippets |-> <<>>],
     [show_defs |-> 1, snippets |-> <<"AgentResult(result=1)">>],
     [show_defs |-> 0, snippets |-> <<"x = 1", "AgentResult(result=1)">>]}
    \cup {[show_defs |-> 0, snippets |-> <<raw>>] : raw \in RawCodes}

\* "".join(content_parts) of a stream that carried no delta.
EmptyContent == [show_defs |-> 0, snippets |-> <<>>]

\* Responder.respond(agent_output_type, message), lc being __last_code: what it
\* replies, the __last_code it leaves, and whether it executed the snippet.
Respond(content, lc) ==
    IF content.show_defs > 0 \/ Len(content.snippets) # 1
    THEN [reply |-> "executor_message", last_code |-> lc,
          log |-> [code |-> <<>>, executed |-> FALSE, certain |-> FALSE, result |-> "-"]]
    ELSE LET code == Strip(content.snippets[1])
             certain == code = lc
             result == ExecuteCode(code)
         IN  IF ~certain /\ SearchDirOrHelp(code)
             THEN [reply |-> "executor_message", last_code |-> lc,
                   log |-> [code |-> <<code>>, executed |-> FALSE, certain |-> certain,
                            result |-> "-"]]
             ELSE [reply |-> CASE result = "AgentError" -> "raise AgentError"
                               [] result \in {"AgentResult[int]", "AgentResult[str]"}
                                  /\ CheckType(result)  -> "AgentResult"
                               [] OTHER                 -> "executor_message",
                   last_code |-> code,
                   log |-> [code |-> <<code>>, executed |-> TRUE, certain |-> certain,
                            result |-> result]]

\* on_stream(item): a content chunk, or None for the end of the stream.
OnStream(s, item) ==
    IF item = "None"
    THEN [s EXCEPT !.ends = @ + 1]
    ELSE [s EXCEPT !.chunks = @ + 1, !.late = @ \/ s.ends > 0]

\* for _ in range(MAX_TOOL_USES), running one iteration too many.
RangeExhausted_OneMore(n) == n >= MAX_TOOL_USES + 1

\* for _ in range(MAX_TOOL_USES): n iterations begun, none is left.
RangeExhausted(n) == n >= MAX_TOOL_USES

\* The call leaves _call_lazy's try block: the finally clause signals the end
\* of the stream.
Exit(how, s) ==
    /\ apc' = "exited"
    /\ outcome' = how
    /\ stream' = OnStream(s, "None")

\* Agent.call (listening FALSE) or Agent.call_stream (TRUE): _call_lazy up to
\* the first inference.
Call(listening) ==
    /\ apc \in {"idle", "exited"}
    /\ agent_calls < MaxCalls
    /\ agent_calls' = agent_calls + 1
    /\ on_stream' = IF listening THEN "content_queue.put" ELSE "NON_FUTURE_FUNCTION"
    /\ attempt' = 1
    /\ apc' = "inference"
    /\ content_parts' = 0
    /\ full_content' = NoContent
    /\ stream' = NothingStreamed
    /\ outcome' = "-"
    /\ UNCHANGED <<notAgent, last_code, responded>>


\* __create_completion, streaming: one more delta is passed to on_stream.
Delta ==
    /\ apc = "inference"
    /\ on_stream # "NON_FUTURE_FUNCTION"
    /\ content_parts < MaxDeltas
    /\ content_parts' = content_parts + 1
    /\ stream' = OnStream(stream, "content")
    /\ UNCHANGED <<notAgent, apc, attempt, on_stream, full_content, last_code, outcome,
                   responded, agent_calls>>

\* __create_completion returns the completion's content; a stream without a
\* delta joins to the empty string.
Complete(content) ==
    /\ apc = "inference"
    /\ (on_stream # "NON_FUTURE_FUNCTION" /\ content_parts = 0) => content = EmptyContent
    /\ full_content' = content
    /\ content_parts' = 0
    /\ apc' = "execution"
    /\ UNCHANGED <<notAgent, attempt, on_stream, last_code, stream, outcome, responded,
                   agent_calls>>

\* The inference request fails and the failure leaves the call without the
\* end of the stream being signalled.
InferenceFail_NoSignal ==
    /\ apc = "inference"
    /\ apc' = "exited"
    /\ outcome' = "inference_failed"
    /\ content_parts' = 0
    /\ UNCHANGED <<notAgent, attempt, on_stream, full_content, last_code, stream,
                   responded, agent_calls>>

\* The inference request, or its stream, raises: the exception leaves the call.
InferenceFail ==
    /\ apc = "inference"
    /\ Exit("inference_failed", stream)
    /\ content_parts' = 0
    /\ UNCHANGED <<notAgent, attempt, on_stream, full_content, last_code, responded,
                   agent_calls>>

\* The EXECUTION half of an iteration: respond() on the completion, then
\* return the result, raise the code's AgentError, or pass the executor's
\* message to on_stream and begin the next iteration, if range() has one.
Execute ==
    /\ apc = "execution"
    /\ LET r == Respond(full_content, last_code)
           s == OnStream(stream, "content")
       IN  /\ last_code' = r.last_code
           /\ responded' = r.log
           /\ CASE r.reply = "AgentResult" ->
                     Exit("returned", stream) /\ UNCHANGED attempt
                [] r.reply = "raise AgentError" ->
                     Exit("agent_error", stream) /\ UNCHANGED attempt
                [] OTHER ->
                     IF RangeExhausted(attempt)
                     THEN Exit("attempts_exhausted", s) /\ UNCHANGED attempt
                     ELSE /\ attempt' = attempt + 1
                          /\ apc' = "inference"
                          /\ stream' = s
                          /\ UNCHANGED outcome
    /\ full_content' = NoContent
    /\ UNCHANGED <<notAgent, on_stream, content_parts, agent_calls>>

NextAgent ==
    \/ \E listening \in BOOLEAN : Call(listening)
    \/ Delta
    \/ \E content \in Contents : Complete(content)
    \/ InferenceFail
    \/ Execute

\* The proxy is idle; one Agent is constructed and called.
InitAgentOnly ==
    /\ file_cache_mode = ""
    /\ db = {}
    /\ files = NoFiles
    /\ InitConnections
    /\ seeded = FALSE
    /\ last_put = [k \in Keys |-> NeverPut]
    /\ InitHook([cl \in Clients |-> "dict"])
    /\ InitKeyIdle
    /\ InitAgent
    /\ InitStarted

SpecAgent == InitAgentOnly /\ [][NextAgent]_vars


\* ------------------------------------------------ the Agent's properties
\* The snippet of the completion handed to respond(), stripped, when the
\* completion carries exactly one and no show_definition tag.
Submitted ==
    IF full_content.show_defs = 0 /\ Len(full_content.snippets) = 1
    THEN <<Strip(full_content.snippets[1])>>
    ELSE <<>>

\* The last respond() turned its snippet down at the dir/help gate.
Gated(code) == responded.code = <<code>> /\ ~responded.executed

\* C38: a snippet that calls dir( or help( is not executed when it is first
\* submitted; it is executed when the same snippet is submitted again in the
\* next message; a snippet equal to the last executed one is always executed.
C38_DirHelpGate ==
    [][\A code \in {Strip(raw) : raw \in RawCodes} :
          (apc = "execution" /\ Submitted = <<code>>) =>
              /\ (SearchDirOrHelp(code) /\ ~Gated(code) /\ code # last_code)
                     => ~responded'.executed
              /\ Gated(code) => responded'.executed
              /\ code = last_code => responded'.executed]_vars


\* The ways a call leaves the loop of _call_lazy.
ExitPaths == {"returned", "agent_error", "inference_failed", "attempts_exhausted"}

C40_BoundedCallLoop ==
    /\ [](attempt <= MAX_TOOL_USES)
    /\ [](outcome = "attempts_exhausted" => apc = "exited" /\ attempt = MAX_TOOL_USES)
    /\ [][apc = "execution" =>
             /\ CheckType(responded'.result) <=> outcome' = "returned"
             /\ outcome' = "returned" => apc' = "exited" /\ attempt' = attempt
             /\ (attempt = MAX_TOOL_USES /\ ~CheckType(responded'.result)) =>
                    /\ apc' = "exited"
                    /\ outcome' \in {"attempts_exhausted", "agent_error"}]_vars
    /\ [][apc = "exited" =>
             \/ apc' = "exited" /\ attempt' = attempt /\ outcome' = outcome
             \/ agent_calls' = agent_calls + 1 /\ attempt' = 1]_vars

\* A call that used every round without a result and raised.
C40_Witness ==
    /\ apc = "exited" /\ outcome = "attempts_exhausted"
    /\ attempt = MAX_TOOL_USES
    /\ stream.chunks >= MAX_TOOL_USES

====
